---- MODULE Spec2Model ----
(***************************************************************************)
(* Verification model of demux-sapio-watcher:                              *)
(*   - parse_bclconvert_folder (bclconvert/parse_folder.py), the           *)
(*     correlator of the three BCLConvert reports, with the pydantic row   *)
(*     models of bclconvert/models.py;                                     *)
(*   - CombinedSampleData construction as a pure function;                 *)
(*   - find_bclconvert_folders / filter_folders (bclconvert/find_folders). *)
(***************************************************************************)
EXTENDS Integers, Sequences, FiniteSets, TLC

\* Largest number of different data rows of one report file.
MaxRows == 2

Min(a, b) == IF a < b THEN a ELSE b

(***************************************************************************)
(* Report formats.  The header lines are those of the BCLConvert reports   *)
(* as the repository's data generator writes them.                         *)
(***************************************************************************)
FastqHeader ==
    <<"RGID", "RGSM", "RGLB", "Lane", "Read1File", "Read2File">>

DemuxHeader ==
    <<"Lane", "SampleID", "Sample_Project", "Index", "# Reads",
      "# Perfect Index Reads", "# One Mismatch Index Reads",
      "# Two Mismatch Index Reads", "% Reads", "% Perfect Index Reads",
      "% One Mismatch Index Reads", "% Two Mismatch Index Reads">>

QualityHeader ==
    <<"Lane", "SampleID", "Sample_Project", "index", "index2", "ReadNumber",
      "Yield", "YieldQ30", "QualityScoreSum", "Mean Quality Score (PF)",
      "% Q30">>

\* The sentinel sample id of unassigned reads.
Undetermined == "Undetermined"

\* int(str) of pydantic's lax mode, on the numerals the rows use.
IntLex ==
    ("0" :> 0) @@ ("1" :> 1) @@ ("2" :> 2) @@ ("3" :> 3) @@ ("10" :> 10)
    @@ ("20" :> 20) @@ ("40" :> 40) @@ ("300" :> 300)

\* float(str), kept as ten-thousandths.
FloatLex ==
    ("0.0500" :> 500) @@ ("0.9000" :> 9000) @@ ("30.00" :> 300000)
    @@ ("0.7500" :> 7500)

\* Path(str): a path is the sequence of its segments, "/" first when absolute.
PathLex ==
    ("../s1_R1_001.fastq.gz" :> <<"..", "s1_R1_001.fastq.gz">>)
    @@ ("../s1_R2_001.fastq.gz" :> <<"..", "s1_R2_001.fastq.gz">>)
    @@ ("../s2_R1_001.fastq.gz" :> <<"..", "s2_R1_001.fastq.gz">>)
    @@ ("../gone_R1_001.fastq.gz" :> <<"..", "gone_R1_001.fastq.gz">>)
    @@ ("../Undetermined_R1_001.fastq.gz"
            :> <<"..", "Undetermined_R1_001.fastq.gz">>)

\* read2_file = None
NoPath == <<>>

\* Directory of the report files of the folder being parsed.
ReportsDir == <<"/", "run", "BCLConvert", "fastq", "Reports">>

\* The fastq files that exist on disk when the folder is parsed.
Disk ==
    { <<"/", "run", "BCLConvert", "fastq", "s1_R1_001.fastq.gz">>,
      <<"/", "run", "BCLConvert", "fastq", "s1_R2_001.fastq.gz">>,
      <<"/", "run", "BCLConvert", "fastq", "s2_R1_001.fastq.gz">>,
      <<"/", "run", "BCLConvert", "fastq", "Undetermined_R1_001.fastq.gz">> }

IsAbsolute(p) == Len(p) > 0 /\ p[1] = "/"

\* Path.resolve() of base / rel without symbolic links: ".." drops a segment.
RECURSIVE Normalize(_, _)
Normalize(acc, rest) ==
    IF rest = <<>> THEN acc
    ELSE IF Head(rest) = ".."
         THEN Normalize(IF Len(acc) > 1 THEN SubSeq(acc, 1, Len(acc) - 1)
                        ELSE acc, Tail(rest))
         ELSE Normalize(Append(acc, Head(rest)), Tail(rest))

ResolveAgainst(dir, p) == IF IsAbsolute(p) THEN p ELSE Normalize(dir, p)

(***************************************************************************)
(* dict(zip(header, fields)): positional zip, cut at the shorter sequence. *)
(***************************************************************************)
Zip(header, fields) ==
    LET n == Min(Len(header), Len(fields))
    IN  [k \in {header[i] : i \in 1..n} |->
            fields[CHOOSE i \in 1..n :
                      header[i] = k /\ \A j \in (i + 1)..n : header[j] # k]]

\* sample_info.get("SampleID") == "Undetermined"
IsUndeterminedRow(info) ==
    "SampleID" \in DOMAIN info /\ info["SampleID"] = Undetermined

(***************************************************************************)
(* Row models (pydantic): required aliases, type coercion, validators.     *)
(***************************************************************************)
FastqAliases == {"RGID", "RGSM", "RGLB", "Lane", "Read1File", "Read2File"}

\* FastqListEntry.empty_str_to_none and the resolution of check_read2_file
FastqRead1(info) == ResolveAgainst(ReportsDir, PathLex[info["Read1File"]])

FastqRead2(info) ==
    IF info["Read2File"] = "" THEN NoPath
    ELSE ResolveAgainst(ReportsDir, PathLex[info["Read2File"]])

\* FastqListEntry(file=..., **sample_info) raises no ValidationError
FastqListEntryValid(info) ==
    /\ FastqAliases \subseteq DOMAIN info
    /\ info["Lane"] \in DOMAIN IntLex
    /\ info["Read1File"] \in DOMAIN PathLex
    /\ info["Read2File"] = "" \/ info["Read2File"] \in DOMAIN PathLex
    /\ FastqRead1(info) # FastqRead2(info)
    /\ FastqRead1(info) \in Disk
    /\ FastqRead2(info) # NoPath => FastqRead2(info) \in Disk

FastqListEntry(info) ==
    [ read_group |-> info["RGID"],
      sample_id  |-> info["RGSM"],
      library    |-> info["RGLB"],
      lane       |-> IntLex[info["Lane"]],
      read1_file |-> FastqRead1(info),
      read2_file |-> FastqRead2(info) ]

DemuxIntAliases ==
    {"Lane", "# Reads", "# Perfect Index Reads", "# One Mismatch Index Reads",
     "# Two Mismatch Index Reads"}

DemuxFloatAliases ==
    {"% Reads", "% Perfect Index Reads", "% One Mismatch Index Reads",
     "% Two Mismatch Index Reads"}

\* DemuxStats(**sample_info) raises no ValidationError
DemuxStatsValid(info) ==
    /\ (DemuxIntAliases \cup DemuxFloatAliases \cup {"SampleID", "Index"})
           \subseteq DOMAIN info
    /\ \A a \in DemuxIntAliases : info[a] \in DOMAIN IntLex
    /\ \A a \in DemuxFloatAliases : info[a] \in DOMAIN FloatLex

DemuxStats(info) ==
    [ lane      |-> IntLex[info["Lane"]],
      sample_id |-> info["SampleID"],
      index     |-> info["Index"],
      num_reads |-> IntLex[info["# Reads"]],
      num_perfect_index_reads |-> IntLex[info["# Perfect Index Reads"]],
      num_one_mismatch_index_reads |->
          IntLex[info["# One Mismatch Index Reads"]],
      num_two_mismatch_index_reads |->
          IntLex[info["# Two Mismatch Index Reads"]],
      percent_reads |-> FloatLex[info["% Reads"]],
      percent_perfect_index_reads |-> FloatLex[info["% Perfect Index Reads"]],
      percent_one_mismatch_index_reads |->
          FloatLex[info["% One Mismatch Index Reads"]],
      percent_two_mismatch_index_reads |->
          FloatLex[info["% Two Mismatch Index Reads"]] ]

QualityIntAliases ==
    {"Lane", "ReadNumber", "Yield", "YieldQ30", "QualityScoreSum"}

QualityFloatAliases == {"Mean Quality Score (PF)", "% Q30"}

\* QualityMetrics(**sample_info) raises no ValidationError
QualityMetricsValid(info) ==
    /\ (QualityIntAliases \cup QualityFloatAliases
            \cup {"SampleID", "index", "index2"}) \subseteq DOMAIN info
    /\ \A a \in QualityIntAliases : info[a] \in DOMAIN IntLex
    /\ \A a \in QualityFloatAliases : info[a] \in DOMAIN FloatLex

QualityMetrics(info) ==
    [ lane        |-> IntLex[info["Lane"]],
      sample_id   |-> info["SampleID"],
      index       |-> info["index"],
      index2      |-> info["index2"],
      read_number |-> IntLex[info["ReadNumber"]],
      yield_      |-> IntLex[info["Yield"]],
      yield_q30   |-> IntLex[info["YieldQ30"]],
      quality_score_sum |-> IntLex[info["QualityScoreSum"]],
      mean_quality_score_pf |-> FloatLex[info["Mean Quality Score (PF)"]],
      percent_q30 |-> FloatLex[info["% Q30"]] ]

(***************************************************************************)
(* CombinedSampleData: a fragment is the dict of keyword arguments, a      *)
(* function from the keys present to the rows stored under them.           *)
(***************************************************************************)
HasRead2(data) == "quality_metrics_read2" \in DOMAIN data

\* fastq, demux_stats and quality_metrics_read1 are required fields
RequiredPresent(data) ==
    {"fastq", "demux_stats", "quality_metrics_read1"} \subseteq DOMAIN data

\* check_consistency without the comparison of the demux-stats sample id
CheckConsistency_NoDemuxCheck(data) ==
    /\ data["fastq"].sample_id = data["quality_metrics_read1"].sample_id
    /\ data["fastq"].read2_file # NoPath =>
          /\ HasRead2(data)
          /\ data["fastq"].sample_id = data["quality_metrics_read2"].sample_id

CheckConsistency(data) ==
    /\ data["fastq"].sample_id = data["demux_stats"].sample_id
    /\ data["fastq"].sample_id = data["quality_metrics_read1"].sample_id
    /\ data["fastq"].read2_file # NoPath =>
          /\ HasRead2(data)
          /\ data["fastq"].sample_id = data["quality_metrics_read2"].sample_id

\* num_fastq_files_consistency without its first check
NumFastqFilesConsistency_NoRead2Check(data) ==
    ~(data["fastq"].read2_file # NoPath /\ ~HasRead2(data))

NumFastqFilesConsistency(data) ==
    /\ ~(data["fastq"].read2_file = NoPath /\ HasRead2(data))
    /\ ~(data["fastq"].read2_file # NoPath /\ ~HasRead2(data))

ValidateReadNumber(data) ==
    /\ data["quality_metrics_read1"].read_number = 1
    /\ HasRead2(data) => data["quality_metrics_read2"].read_number = 2

\* CombinedSampleData(**data) raises no ValidationError
CombinedSampleDataValid(data) ==
    /\ RequiredPresent(data)
    /\ CheckConsistency(data)
    /\ NumFastqFilesConsistency(data)
    /\ ValidateReadNumber(data)

(***************************************************************************)
(* combined_data: a Python dict, keys in insertion order.                  *)
(***************************************************************************)
EmptyDict == [keys |-> <<>>, val |-> <<>>]

DictHas(d, k) == k \in DOMAIN d.val

\* d[k] = v: a new key goes last, an existing key keeps its place
DictSet(d, k, v) ==
    [ keys |-> IF DictHas(d, k) THEN d.keys ELSE Append(d.keys, k),
      val  |-> [x \in DOMAIN d.val \cup {k} |-> IF x = k THEN v ELSE d.val[x]] ]

\* d[k][field] = row
FragmentSet(d, k, field, row) ==
    DictSet(d, k, [f \in DOMAIN d.val[k] \cup {field} |->
                      IF f = field THEN row ELSE d.val[k][f]])

\* a fastq-list loop that keeps the first row of a sample id
SeedFastq_KeepFirst(d, entry) ==
    IF DictHas(d, entry.sample_id) THEN d
    ELSE DictSet(d, entry.sample_id, [f \in {"fastq"} |-> entry])

\* combined_data[fastq_entry.sample_id] = {"fastq": fastq_entry}
SeedFastq(d, entry) == DictSet(d, entry.sample_id, [f \in {"fastq"} |-> entry])

\* a demux-stats loop that replaces the fragment instead of extending it
AttachDemux_Replace(d, entry) ==
    DictSet(d, entry.sample_id, [f \in {"demux_stats"} |-> entry])

\* if sample_id not in combined_data: combined_data[sample_id] = {}
\* combined_data[sample_id]["demux_stats"] = demux_entry
AttachDemux(d, entry) ==
    LET d1 == IF DictHas(d, entry.sample_id) THEN d
              ELSE DictSet(d, entry.sample_id, <<>>)
    IN  FragmentSet(d1, entry.sample_id, "demux_stats", entry)

\* every quality row is stored as that of read 1
QualityKey_AlwaysRead1(entry) == "quality_metrics_read1"

\* the key a quality row is stored under; "" for read numbers other than 1, 2
QualityKey(entry) ==
    IF entry.read_number = 1 THEN "quality_metrics_read1"
    ELSE IF entry.read_number = 2 THEN "quality_metrics_read2"
    ELSE ""

\* combined_data[sample_id] raises KeyError
QualityRaises(d, entry) ==
    QualityKey(entry) # "" /\ ~DictHas(d, entry.sample_id)

AttachQuality(d, entry) ==
    IF QualityKey(entry) = "" THEN d
    ELSE FragmentSet(d, entry.sample_id, QualityKey(entry), entry)

(***************************************************************************)
(* The data rows a report may hold.                                        *)
(***************************************************************************)
FastqLine(sid, r1, r2) ==
    <<"AAAAAAAA.CCCCCCC.1", sid, "LIBRARY1", "1", r1, r2>>

FastqLines ==
    { FastqLine("s1", "../s1_R1_001.fastq.gz", "../s1_R2_001.fastq.gz"),
      FastqLine("s1", "../s1_R1_001.fastq.gz", ""),
      FastqLine("s2", "../s2_R1_001.fastq.gz", ""),
      FastqLine("s1", "../gone_R1_001.fastq.gz", ""),
      FastqLine(Undetermined, "../Undetermined_R1_001.fastq.gz", "") }

DemuxLine(sid, reads) ==
    <<"1", sid, "Project_1", "ATCG-GCTA", reads, "10", "1", "0",
      "0.0500", "0.9000", "0.0500", "0.0500">>

DemuxLines ==
    { DemuxLine("s1", "10"), DemuxLine("s1", "20"), DemuxLine("s2", "10"),
      DemuxLine(Undetermined, "40"), DemuxLine("s2", "NA") }

QualityLine(sid, rn, yield) ==
    <<"1", sid, "Project_1", "ATCG", "GCTA", rn, yield, "20", "300",
      "30.00", "0.7500">>

QualityLines ==
    { QualityLine("s1", "1", "40"), QualityLine("s1", "2", "40"),
      QualityLine("s2", "1", "40"), QualityLine(Undetermined, "1", "40"),
      QualityLine("s1", "1", "NA") }

Reports == {"fastq", "demux", "quality"}

HeaderOf(c) ==
    IF c = "fastq" THEN FastqHeader
    ELSE IF c = "demux" THEN DemuxHeader ELSE QualityHeader

\* the quality-metrics loop stands before the demux-stats loop
NextPhase_QualityBeforeDemux(c) ==
    IF c = "fastq" THEN "quality" ELSE IF c = "quality" THEN "demux" ELSE "validate"

\* the order of the three loops of parse_bclconvert_folder
NextPhase(c) ==
    IF c = "fastq" THEN "demux" ELSE IF c = "demux" THEN "quality" ELSE "validate"

VARIABLES
    phase,          \* the loop the generator is in; "done"; "raised"
    open,           \* the report file that is open, or "none"
    header,         \* the header of the open file
    unread,         \* lines were left unread when an exception left the loop
    combined_data,  \* the sample-id mapping
    vpos,           \* position of the final loop in combined_data
    yielded,        \* the records yielded so far
    exc,            \* the exception that left the generator, or "none"
    rowsRead,       \* history: the distinct data rows read from each report
    lastValid,      \* history: per report and sample, the last decodable row
    cs_args,        \* keyword arguments of a direct CombinedSampleData(...)
    cs_result,      \* "pending", "ok" or "ValidationError"
    fs,             \* the directory tree: what each directory holds
    root_paths,     \* argument of find_bclconvert_folders
    include_patterns,
    exclude_patterns,
    scan_pc,        \* "root", "folders" or "done"
    root_idx,       \* position of the outer loop in root_paths
    folders,        \* folders of the current root still to visit
    bcl_convert_folders, \* the result set
    sf_input,       \* the CombinedSampleData given to from_bclconvert
    sf_pc,          \* "call", "returned" or "raised"
    sf_result,      \* the SequencingFile returned
    sf_error,       \* the exception raised, or "none"
    sf_calls,       \* how often from_bclconvert was called with sf_input
    cli_folders,    \* what find_bclconvert_folders returned, in iteration
                    \* order: for each folder, what its generator will do
    dry_run,        \* args.dry_run
    records_current,        \* the server's records already hold what a
                            \* run sends: an earlier run has updated them
    cli_pc,         \* where cli() stands
    folder_idx,     \* position of the outer loop in cli_folders
    it,             \* the generator of the current folder
    sample_data,    \* the item next(it) returned
    sequencing_file,        \* the mapped record
    num_parsed_samples,
    total_parsed_samples,
    total_processed_folders,
    calls,          \* the calls made on the client, with what they returned
    cli_exc,        \* the exception that left cli(), or "none"
    pair_disk,      \* the files that exist, for find_fastq_pairs
    r1_files,       \* what the glob patterns gave
    pairs_pc,       \* where find_fastq_pairs stands
    file_idx,       \* position of the loop in r1_files
    seen,
    uuid,           \* the locals uuid, r1_abs and r2_abs: <<>> while unbound
    r1_abs,
    r2_abs,
    pairs_yielded,  \* the tuples yielded so far
    pairs_exc,      \* the exception that left find_fastq_pairs, or "none"
    status_code,    \* of the server's answer to the field-list request
    sapio_fields,   \* the fields the server lists for the class
    client_pc,      \* where SapioClient.__init__ stands
    field_pos,      \* position of the loop in cls.model_fields
    matching_field, \* the local matching_field: <<>> while unbound
    invalid_classes,
    client_exc      \* the exception that left __init__, or "none"

pvars == <<phase, open, header, unread, combined_data, vpos, yielded, exc,
           rowsRead, lastValid>>

cvars == <<cs_args, cs_result>>

svars == <<fs, root_paths, include_patterns, exclude_patterns, scan_pc,
           root_idx, folders, bcl_convert_folders>>

mvars == <<sf_input, sf_pc, sf_result, sf_error, sf_calls>>

lvars == <<cli_folders, dry_run, records_current, cli_pc, folder_idx, it, sample_data,
           sequencing_file, num_parsed_samples, total_parsed_samples,
           total_processed_folders, calls, cli_exc>>

fvars == <<pair_disk, r1_files, pairs_pc, file_idx, seen, uuid, r1_abs, r2_abs,
           pairs_yielded, pairs_exc>>

kvars == <<status_code, sapio_fields, client_pc, field_pos, matching_field,
           invalid_classes, client_exc>>

vars == <<pvars, cvars, svars, mvars, lvars, fvars, kvars>>

\* find_fastq_pairs is not running
PairsIdle ==
    /\ pair_disk = {}
    /\ r1_files = <<>>
    /\ pairs_pc = "idle"
    /\ file_idx = 1
    /\ seen = {}
    /\ uuid = <<>>
    /\ r1_abs = <<>>
    /\ r2_abs = <<>>
    /\ pairs_yielded = <<>>
    /\ pairs_exc = "none"

\* no SapioClient is being constructed
ClientIdle ==
    /\ status_code = 200
    /\ sapio_fields = <<>>
    /\ client_pc = "idle"
    /\ field_pos = 1
    /\ matching_field = <<>>
    /\ invalid_classes = {}
    /\ client_exc = "none"

\* the parser is not running
ParseIdle ==
    /\ phase = "idle"
    /\ open = "none"
    /\ header = <<>>
    /\ unread = FALSE
    /\ combined_data = EmptyDict
    /\ vpos = 1
    /\ yielded = <<>>
    /\ exc = "none"
    /\ rowsRead = [c \in Reports |-> {}]
    /\ lastValid = [c \in {"fastq", "demux"} |-> <<>>]

\* no CombinedSampleData is being constructed directly
CombineIdle ==
    /\ cs_args = <<>>
    /\ cs_result = "idle"

\* no conversion is running
ConvertIdle ==
    /\ sf_input = <<>>
    /\ sf_pc = "idle"
    /\ sf_result = <<>>
    /\ sf_error = "none"
    /\ sf_calls = 0

\* cli() is not running
CliIdle ==
    /\ cli_folders = <<>>
    /\ dry_run = FALSE
    /\ records_current = FALSE
    /\ cli_pc = "idle"
    /\ folder_idx = 1
    /\ it = <<>>
    /\ sample_data = <<>>
    /\ sequencing_file = <<>>
    /\ num_parsed_samples = 0
    /\ total_parsed_samples = 0
    /\ total_processed_folders = 0
    /\ calls = <<>>
    /\ cli_exc = "none"

\* no scan is running
ScanIdle ==
    /\ fs = <<>>
    /\ root_paths = <<>>
    /\ include_patterns = {}
    /\ exclude_patterns = {}
    /\ scan_pc = "idle"
    /\ root_idx = 1
    /\ folders = <<>>
    /\ bcl_convert_folders = {}

ParseInit ==
    /\ phase = "fastq"
    /\ open = "none"
    /\ header = <<>>
    /\ unread = FALSE
    /\ combined_data = EmptyDict
    /\ vpos = 1
    /\ yielded = <<>>
    /\ exc = "none"
    /\ rowsRead = [c \in Reports |-> {}]
    /\ lastValid = [c \in {"fastq", "demux"} |-> <<>>]

Record(h, k, v) == [x \in DOMAIN h \cup {k} |-> IF x = k THEN v ELSE h[x]]

\* a report holds at most MaxRows different data rows
MayRead(c, line) == Cardinality(rowsRead[c] \cup {line}) <= MaxRows

\* with path.open("r") as f: header = next(f).strip("\n").split(",")
\* next(f) on an empty file raises StopIteration, which leaves the generator.
OpenReport(c) ==
    /\ phase = c
    /\ open = "none"
    /\ \E empty \in BOOLEAN :
         IF empty
         THEN /\ phase' = "raised"
              /\ exc' = "StopIteration"
              /\ UNCHANGED <<open, header>>
         ELSE /\ open' = c
              /\ header' = HeaderOf(c)
              /\ UNCHANGED <<phase, exc>>
    /\ UNCHANGED <<unread, combined_data, vpos, yielded, rowsRead, lastValid>>
    /\ UNCHANGED <<cvars, svars, mvars, lvars, fvars, kvars>>

\* the open file has no further line: the for loop ends, the file is closed;
\* the loop over the paths of the report goes on with the next path, or ends
CloseReport(c) ==
    /\ phase = c
    /\ open = c
    /\ open' = "none"
    /\ header' = <<>>
    /\ \E last_path \in BOOLEAN :
         phase' = IF last_path THEN NextPhase(c) ELSE c
    /\ UNCHANGED <<unread, combined_data, vpos, yielded, exc, rowsRead,
                   lastValid>>
    /\ UNCHANGED <<cvars, svars, mvars, lvars, fvars, kvars>>

\* one pass of the fastq-list loop
FastqRow ==
    /\ phase = "fastq"
    /\ open = "fastq"
    /\ \E line \in FastqLines :
         LET info == Zip(header, line) IN
         /\ MayRead("fastq", line)
         /\ rowsRead' = [rowsRead EXCEPT !["fastq"] = @ \cup {line}]
         /\ IF IsUndeterminedRow(info)
            THEN UNCHANGED <<combined_data, lastValid>>
            ELSE IF ~FastqListEntryValid(info)
            THEN UNCHANGED <<combined_data, lastValid>>
            ELSE /\ combined_data' = SeedFastq(combined_data, FastqListEntry(info))
                 /\ lastValid' =
                       [lastValid EXCEPT !["fastq"] =
                           IF info["RGSM"] = Undetermined THEN @
                           ELSE Record(@, info["RGSM"], line)]
    /\ UNCHANGED <<phase, open, header, unread, vpos, yielded, exc>>
    /\ UNCHANGED <<cvars, svars, mvars, lvars, fvars, kvars>>

\* one pass of the demux-stats loop
DemuxRow ==
    /\ phase = "demux"
    /\ open = "demux"
    /\ \E line \in DemuxLines :
         LET info == Zip(header, line) IN
         /\ MayRead("demux", line)
         /\ rowsRead' = [rowsRead EXCEPT !["demux"] = @ \cup {line}]
         /\ IF IsUndeterminedRow(info)
            THEN UNCHANGED <<combined_data, lastValid>>
            ELSE IF ~DemuxStatsValid(info)
            THEN UNCHANGED <<combined_data, lastValid>>
            ELSE /\ combined_data' = AttachDemux(combined_data, DemuxStats(info))
                 /\ lastValid' =
                       [lastValid EXCEPT !["demux"] =
                           Record(@, info["SampleID"], line)]
    /\ UNCHANGED <<phase, open, header, unread, vpos, yielded, exc>>
    /\ UNCHANGED <<cvars, svars, mvars, lvars, fvars, kvars>>

\* one pass of the quality-metrics loop; a row of a sample id that is no key
\* of combined_data raises KeyError, which leaves the generator whether or not
\* the file holds further lines
QualityRow ==
    /\ phase = "quality"
    /\ open = "quality"
    /\ \E line \in QualityLines :
         LET info == Zip(header, line) IN
         /\ MayRead("quality", line)
         /\ rowsRead' = [rowsRead EXCEPT !["quality"] = @ \cup {line}]
         /\ IF IsUndeterminedRow(info)
            THEN UNCHANGED <<combined_data, phase, open, header, exc, unread>>
            ELSE IF ~QualityMetricsValid(info)
            THEN UNCHANGED <<combined_data, phase, open, header, exc, unread>>
            ELSE IF QualityRaises(combined_data, QualityMetrics(info))
            THEN /\ phase' = "raised"
                 /\ exc' = "KeyError"
                 /\ open' = "none"
                 /\ header' = <<>>
                 /\ \E further \in BOOLEAN : unread' = further
                 /\ UNCHANGED combined_data
            ELSE /\ combined_data' =
                       AttachQuality(combined_data, QualityMetrics(info))
                 /\ UNCHANGED <<phase, open, header, exc, unread>>
    /\ UNCHANGED <<vpos, yielded, lastValid>>
    /\ UNCHANGED <<cvars, svars, mvars, lvars, fvars, kvars>>

\* one pass of the final loop: yield CombinedSampleData(**data), or log and
\* continue on a ValidationError
ValidateFragment ==
    /\ phase = "validate"
    /\ vpos <= Len(combined_data.keys)
    /\ LET data == combined_data.val[combined_data.keys[vpos]] IN
       yielded' = IF CombinedSampleDataValid(data)
                  THEN Append(yielded, data) ELSE yielded
    /\ vpos' = vpos + 1
    /\ UNCHANGED <<phase, open, header, unread, combined_data, exc, rowsRead,
                   lastValid>>
    /\ UNCHANGED <<cvars, svars, mvars, lvars, fvars, kvars>>

\* the generator is exhausted
ParseDone ==
    /\ phase = "validate"
    /\ vpos > Len(combined_data.keys)
    /\ phase' = "done"
    /\ UNCHANGED <<open, header, unread, combined_data, vpos, yielded, exc,
                   rowsRead, lastValid>>
    /\ UNCHANGED <<cvars, svars, mvars, lvars, fvars, kvars>>

ParseNext ==
    \/ \E c \in Reports : OpenReport(c)
    \/ \E c \in Reports : CloseReport(c)
    \/ FastqRow
    \/ DemuxRow
    \/ QualityRow
    \/ ValidateFragment
    \/ ParseDone

InitParse ==
    /\ ParseInit
    /\ CombineIdle /\ ScanIdle /\ ConvertIdle
    /\ CliIdle /\ PairsIdle /\ ClientIdle

SpecParse == InitParse /\ [][ParseNext]_vars

(***************************************************************************)
(* Vocabulary of the claims about parse_bclconvert_folder, in terms of the *)
(* rows read from the reports.                                             *)
(***************************************************************************)
SampleColumn(c) == IF c = "fastq" THEN "RGSM" ELSE "SampleID"

LineInfo(c, line) == Zip(HeaderOf(c), line)

LineSampleId(c, line) == LineInfo(c, line)[SampleColumn(c)]

LineDecodes(c, line) ==
    IF c = "fastq" THEN FastqListEntryValid(LineInfo(c, line))
    ELSE IF c = "demux" THEN DemuxStatsValid(LineInfo(c, line))
    ELSE QualityMetricsValid(LineInfo(c, line))

\* the distinct rows of report c read so far that name sample s
RowsOf(c, s) == {l \in rowsRead[c] : LineSampleId(c, l) = s}

\* the decodable quality rows of sample s with read number rn
QualityRowsOf(s, rn) ==
    {l \in RowsOf("quality", s) :
        /\ LineDecodes("quality", l)
        /\ QualityMetrics(LineInfo("quality", l)).read_number = rn}

\* the sample ids, other than the sentinel, that report c names
SamplesIn(c) == {LineSampleId(c, l) : l \in rowsRead[c]} \ {Undetermined}

AllSampleIds == SamplesIn("fastq") \cup SamplesIn("demux") \cup SamplesIn("quality")

YieldedIds == {yielded[i]["fastq"].sample_id : i \in 1..Len(yielded)}

\* the fastq row of a sample of a well-formed folder names a read-2 file
PairedInFastq(s) ==
    \E l \in RowsOf("fastq", s) : LineInfo("fastq", l)["Read2File"] # ""

\* some row read so far was skipped for a ValidationError
SomeRowSkipped ==
    \E c \in Reports : \E l \in rowsRead[c] :
        ~IsUndeterminedRow(LineInfo(c, l)) /\ ~LineDecodes(c, l)

\* every row read so far decodes and names a sample of the fastq-list report
RowsWellFormed ==
    /\ \A c \in Reports : \A l \in rowsRead[c] :
          LineSampleId(c, l) = Undetermined \/ LineDecodes(c, l)
    /\ SamplesIn("demux") \subseteq SamplesIn("fastq")
    /\ SamplesIn("quality") \subseteq SamplesIn("fastq")

\* the three reports are well-formed and list the same samples: one fastq-list
\* row and one demux-stats row each, one read-1 quality row each and a read-2
\* quality row exactly for the paired-end samples
FolderWellFormed ==
    /\ RowsWellFormed
    /\ \A s \in SamplesIn("fastq") :
          /\ Cardinality(RowsOf("fastq", s)) = 1
          /\ Cardinality(RowsOf("demux", s)) = 1
          /\ Cardinality(QualityRowsOf(s, 1)) = 1
          /\ Cardinality(QualityRowsOf(s, 2)) = (IF PairedInFastq(s) THEN 1 ELSE 0)
          /\ RowsOf("quality", s) = QualityRowsOf(s, 1) \cup QualityRowsOf(s, 2)

\* C1: for a well-formed folder listing N samples with distinct ids the
\* generator raises nothing and, once exhausted, has yielded exactly N
\* records, one per sample id.
C1_ExactlyOneRecordPerSample ==
    /\ (phase = "raised" /\ exc # "StopIteration") => ~RowsWellFormed
    /\ (phase = "done" /\ FolderWellFormed) =>
          /\ Len(yielded) = Cardinality(SamplesIn("fastq"))
          /\ YieldedIds = SamplesIn("fastq")

\* a well-formed folder of two samples was parsed
C1_Witness ==
    /\ phase = "done"
    /\ FolderWellFormed
    /\ Cardinality(SamplesIn("fastq")) = 2
    /\ Len(yielded) = 2

\* the whole input has been consumed: the generator is exhausted, or it was
\* left by a KeyError on the last quality row
InputConsumed ==
    \/ phase = "done"
    \/ phase = "raised" /\ exc = "KeyError" /\ ~unread

\* sample s is complete and consistent in the rows read: a decodable
\* fastq-list row, a decodable demux-stats row, a read-1 quality row, and a
\* read-2 quality row exactly if its (last) fastq row names a read-2 file
SampleComplete(s) ==
    /\ s \in DOMAIN lastValid["fastq"]
    /\ s \in DOMAIN lastValid["demux"]
    /\ QualityRowsOf(s, 1) # {}
    /\ (QualityRowsOf(s, 2) # {}) <=>
          (LineInfo("fastq", lastValid["fastq"][s])["Read2File"] # "")

\* C2: no row that cannot be joined makes the generator raise, and every
\* complete and consistent sample of the folder is yielded.
C2_UnjoinableRowsAreIsolated ==
    /\ exc # "KeyError"
    /\ InputConsumed => \A s \in AllSampleIds : SampleComplete(s) => s \in YieldedIds

\* C3: every yielded record has read-2 metrics iff its fastq row has a read-2
\* file, read-1 metrics of read number 1 and read-2 metrics of read number 2.
C3_Read2Consistency ==
    \A i \in 1..Len(yielded) :
        /\ HasRead2(yielded[i]) <=> (yielded[i]["fastq"].read2_file # NoPath)
        /\ yielded[i]["quality_metrics_read1"].read_number = 1
        /\ HasRead2(yielded[i]) =>
              yielded[i]["quality_metrics_read2"].read_number = 2

\* a fragment with read-2 metrics but no read-2 file was dropped
C3_Witness ==
    /\ phase = "done"
    /\ \E s \in DOMAIN combined_data.val :
          /\ RequiredPresent(combined_data.val[s])
          /\ HasRead2(combined_data.val[s])
          /\ combined_data.val[s]["fastq"].read2_file = NoPath
          /\ s \notin YieldedIds

\* sample s has fastq-list rows and all of them name a missing read-1 file
Read1Missing(s) ==
    /\ RowsOf("fastq", s) # {}
    /\ \A l \in RowsOf("fastq", s) :
          ResolveAgainst(ReportsDir, PathLex[LineInfo("fastq", l)["Read1File"]])
              \notin Disk

\* C5: a sample whose read-1 fastq file is missing is yielded in no record,
\* and every other complete sample of the folder is still yielded.
C5_MissingRead1DropsOnlyThatSample ==
    InputConsumed =>
        \A s \in AllSampleIds :
            Read1Missing(s) =>
                /\ s \notin YieldedIds
                /\ \A t \in AllSampleIds \ {s} :
                      SampleComplete(t) => t \in YieldedIds

\* C6: a row whose sample id is "Undetermined" never creates a fragment.
C6_UndeterminedNeverInMapping == ~DictHas(combined_data, Undetermined)

\* C7: once a row was skipped for a decoding failure, every later row is
\* still processed: the generator is not left while rows are unread.
C7_SkippedRowDoesNotStopProcessing ==
    (SomeRowSkipped /\ phase = "raised" /\ exc = "KeyError") => ~unread

\* C8: the mapping holds, for every sample, the last decodable fastq-list row
\* and the last decodable demux-stats row of that sample id, and the output
\* has at most one record per sample id, carrying those rows.
C8_LastWriteWins ==
    /\ \A s \in DOMAIN lastValid["fastq"] :
          /\ DictHas(combined_data, s)
          /\ "fastq" \in DOMAIN combined_data.val[s]
          /\ combined_data.val[s]["fastq"] =
                FastqListEntry(LineInfo("fastq", lastValid["fastq"][s]))
    /\ \A s \in DOMAIN lastValid["demux"] :
          /\ DictHas(combined_data, s)
          /\ "demux_stats" \in DOMAIN combined_data.val[s]
          /\ combined_data.val[s]["demux_stats"] =
                DemuxStats(LineInfo("demux", lastValid["demux"][s]))
    /\ \A i, j \in 1..Len(yielded) :
          yielded[i]["fastq"].sample_id = yielded[j]["fastq"].sample_id => i = j
    /\ \A i \in 1..Len(yielded) :
          LET s == yielded[i]["fastq"].sample_id IN
          /\ yielded[i]["fastq"] = combined_data.val[s]["fastq"]
          /\ yielded[i]["demux_stats"] = combined_data.val[s]["demux_stats"]

\* a sample with two different decodable fastq-list rows and two different
\* demux-stats rows was yielded
C8_Witness ==
    /\ phase = "done"
    /\ \E i \in 1..Len(yielded) :
          LET s == yielded[i]["fastq"].sample_id IN
          /\ Cardinality({l \in RowsOf("fastq", s) : LineDecodes("fastq", l)}) >= 2
          /\ Cardinality({l \in RowsOf("demux", s) : LineDecodes("demux", l)}) >= 2

(***************************************************************************)
(* CombinedSampleData(...) called directly with four rows of any samples.  *)
(***************************************************************************)
FastqEntries ==
    {FastqListEntry(LineInfo("fastq", l)) :
        l \in {x \in FastqLines : LineDecodes("fastq", x)}}

DemuxEntries ==
    {DemuxStats(LineInfo("demux", l)) :
        l \in {x \in DemuxLines : LineDecodes("demux", x)}}

QualityEntries ==
    {QualityMetrics(LineInfo("quality", l)) :
        l \in {x \in QualityLines \cup {QualityLine("s2", "2", "40")} :
                 LineDecodes("quality", x)}}

\* the keyword arguments: quality_metrics_read2 given or left out
CombineArgs ==
    {[k \in {"fastq", "demux_stats", "quality_metrics_read1"} |->
         IF k = "fastq" THEN f ELSE IF k = "demux_stats" THEN d ELSE q1] :
        f \in FastqEntries, d \in DemuxEntries, q1 \in QualityEntries}
    \cup
    {[k \in {"fastq", "demux_stats", "quality_metrics_read1",
             "quality_metrics_read2"} |->
         IF k = "fastq" THEN f ELSE IF k = "demux_stats" THEN d
         ELSE IF k = "quality_metrics_read1" THEN q1 ELSE q2] :
        f \in FastqEntries, d \in DemuxEntries, q1 \in QualityEntries,
        q2 \in QualityEntries}

CombineInit ==
    /\ cs_args \in CombineArgs
    /\ cs_result = "pending"

\* CombinedSampleData(**cs_args)
Construct ==
    /\ cs_result = "pending"
    /\ cs_result' = IF CombinedSampleDataValid(cs_args) THEN "ok"
                    ELSE "ValidationError"
    /\ UNCHANGED <<cs_args, pvars, svars, mvars, lvars, fvars, kvars>>

CombineNext == Construct

InitCombine ==
    /\ CombineInit
    /\ ParseIdle /\ ScanIdle /\ ConvertIdle
    /\ CliIdle /\ PairsIdle /\ ClientIdle

SpecCombine == InitCombine /\ [][CombineNext]_vars

\* some constituent row names another sample than the fastq row
SampleIdMismatch(data) ==
    \/ data["demux_stats"].sample_id # data["fastq"].sample_id
    \/ data["quality_metrics_read1"].sample_id # data["fastq"].sample_id
    \/ /\ HasRead2(data)
       /\ data["quality_metrics_read2"].sample_id # data["fastq"].sample_id

\* C4: constructing a CombinedSampleData fails whenever the demux-stats row,
\* the read-1 quality row or a present read-2 quality row names another
\* sample than the fastq row.
C4_SampleIdMismatchFails ==
    (cs_result # "pending" /\ cs_result # "idle" /\ SampleIdMismatch(cs_args))
        => cs_result = "ValidationError"

\* the construction failed for paired-end rows that agree in everything but
\* the sample id of the read-2 quality row
C4_Witness ==
    /\ cs_result = "ValidationError"
    /\ HasRead2(cs_args)
    /\ cs_args["fastq"].read2_file # NoPath
    /\ cs_args["demux_stats"].sample_id = cs_args["fastq"].sample_id
    /\ cs_args["quality_metrics_read1"].sample_id = cs_args["fastq"].sample_id
    /\ cs_args["quality_metrics_read1"].read_number = 1
    /\ cs_args["quality_metrics_read2"].read_number = 2
    /\ cs_args["quality_metrics_read2"].sample_id # cs_args["fastq"].sample_id

(***************************************************************************)
(* find_bclconvert_folders: the directory tree, fnmatch and the walk.      *)
(*                                                                         *)
(* A directory is named by its segments below "/", <<"r", "a">> for /r/a;  *)
(* a path string is the sequence of its characters.  Only directories are  *)
(* nodes: the files the scan looks at are fields of the directory that     *)
(* holds them.                                                             *)
(***************************************************************************)
Segments == <<"..", "a", "b", "r">>

Nodes == {<<>>, <<"r">>, <<"r", "a">>, <<"r", "a", "b">>, <<"r", "b">>}

Parent(n) == SubSeq(n, 1, Len(n) - 1)

RECURSIVE Realpath(_)
\* the directory a path names once its ".." segments are followed
Realpath(p) ==
    IF p = <<>> THEN <<>>
    ELSE LET q == Realpath(Parent(p)) IN
         IF p[Len(p)] = ".." THEN Parent(q) ELSE Append(q, p[Len(p)])

\* the path names a directory: every directory on the way exists
IsDir(p) ==
    \A k \in 1..Len(p) :
        /\ Realpath(SubSeq(p, 1, k)) \in Nodes
        /\ fs[Realpath(SubSeq(p, 1, k))].exists

\* path.resolve() left out
ResolvePath_AsGiven(p) == p

\* path.resolve()
ResolvePath(p) == Realpath(p)

IsPrefix(a, b) == Len(a) <= Len(b) /\ SubSeq(b, 1, Len(a)) = a

RECURSIVE Join(_)
\* the segments joined with "/"
Join(segs) ==
    IF segs = <<>> THEN <<>>
    ELSE IF Len(segs) = 1 THEN <<segs[1]>>
    ELSE <<segs[1], "/">> \o Join(Tail(segs))

\* str(path) of an absolute path
Str(n) == <<"/">> \o Join(n)

\* str(item.relative_to(_top_level))
RelativeTo(n, top) == Join(SubSeq(n, Len(top) + 1, Len(n)))

\* the candidate locations of a report file below a run folder, in the order
\* from_path lists them
ReportLocations ==
    <<".", "Demux", "DragenGermline/fastq/Reports",
      "DragenGermline/ora_fastq/Reports", "BCLConvert/fastq/Reports",
      "BCLConvert/ora_fastq/Reports">>

ReportNames == {"Demultiplex_Stats.csv", "Quality_Metrics.csv", "fastq_list.csv"}

\* what a directory holds: CopyComplete.txt directly inside it, a BCLConvert
\* sub-directory, BCLConvert/fastq/Logs/FastqComplete.txt, and for each report
\* name the candidate locations where that file exists
Holds(cc, bcl, fc, dmx, qm, fql) ==
    [exists |-> TRUE, copy_complete |-> cc, bclconvert |-> bcl,
     fastq_complete |-> fc,
     reports |-> [r \in ReportNames |->
                     IF r = "Demultiplex_Stats.csv" THEN dmx
                     ELSE IF r = "Quality_Metrics.csv" THEN qm ELSE fql]]

Absent ==
    [exists |-> FALSE, copy_complete |-> FALSE, bclconvert |-> FALSE,
     fastq_complete |-> FALSE, reports |-> [r \in ReportNames |-> {}]]

Plain == Holds(FALSE, FALSE, FALSE, {}, {}, {})

PlainCopyComplete == Holds(TRUE, FALSE, FALSE, {}, {}, {})

\* a converted run whose conversion wrote its marker
RunFastqComplete ==
    Holds(FALSE, TRUE, TRUE, {"BCLConvert/fastq/Reports"},
          {"BCLConvert/fastq/Reports"}, {"BCLConvert/fastq/Reports"})

\* a run still being converted: all reports, no FastqComplete.txt
RunNoMarker ==
    Holds(FALSE, TRUE, FALSE, {".", "BCLConvert/fastq/Reports"},
          {".", "BCLConvert/fastq/Reports"}, {".", "BCLConvert/fastq/Reports"})

\* a marked run without Quality_Metrics.csv
RunNoQuality == Holds(FALSE, TRUE, TRUE, {"Demux"}, {}, {"Demux"})

\* reports and no BCLConvert sub-directory
ReportsNoBclConvert == Holds(FALSE, FALSE, FALSE, {"."}, {"."}, {"."})

\* the contents a directory of the tree may have
Contents(n) ==
    IF n = <<>> THEN {Plain, PlainCopyComplete}
    ELSE IF n = <<"r">> THEN {Plain, PlainCopyComplete, RunFastqComplete, RunNoMarker}
    ELSE IF n = <<"r", "a">>
    THEN {Absent, Plain, PlainCopyComplete, RunFastqComplete, RunNoMarker,
          RunNoQuality, ReportsNoBclConvert}
    ELSE {Absent, Plain, RunFastqComplete, RunNoMarker, RunNoQuality,
          ReportsNoBclConvert}

Trees ==
    {t \in [Nodes -> {Absent, Plain, PlainCopyComplete, RunFastqComplete,
                      RunNoMarker, RunNoQuality, ReportsNoBclConvert}] :
        /\ \A n \in Nodes : t[n] \in Contents(n)
        /\ \A n \in Nodes \ {<<>>} : t[n].exists => t[Parent(n)].exists}

RECURSIVE Fnmatch(_, _)
\* fnmatch.fnmatch(name, pat) for patterns of literals, "?" and "*"; "*"
\* matches any run of characters, "/" included
Fnmatch(name, pat) ==
    IF pat = <<>> THEN name = <<>>
    ELSE IF Head(pat) = "*"
    THEN \/ Fnmatch(name, Tail(pat))
         \/ name # <<>> /\ Fnmatch(Tail(name), pat)
    ELSE IF Head(pat) = "?"
    THEN name # <<>> /\ Fnmatch(Tail(name), Tail(pat))
    ELSE /\ name # <<>>
         /\ Head(name) = Head(pat)
         /\ Fnmatch(Tail(name), Tail(pat))

Matches(p, patterns) == \E pat \in patterns : Fnmatch(p, pat)

\* include_patterns or ["*"]
OrStar(patterns) == IF patterns = {} THEN {<<"*">>} ELSE patterns

\* the sub-directories of dir, as iterdir() and is_dir() give them
SubDirs(dir) ==
    {Append(dir, n[Len(n)]) :
        n \in {m \in Nodes : m # <<>> /\ Parent(m) = Realpath(dir) /\ fs[m].exists}}

RECURSIVE FilterBelow_IncludedOnly(_, _, _, _)
\* a walk that descends only into the directories it includes
FilterBelow_IncludedOnly(dir, top, incl, excl) ==
    UNION {IF Matches(RelativeTo(item, top), incl)
           THEN {ResolvePath(item)} \cup FilterBelow_IncludedOnly(item, top, incl, excl)
           ELSE {} :
             item \in {c \in SubDirs(dir) : ~Matches(RelativeTo(c, top), excl)}}

RECURSIVE FilterBelow(_, _, _, _)
\* the loop over root_path.iterdir(): an excluded directory is passed over
\* with all below it; any other is appended if included, and descended into
FilterBelow(dir, top, incl, excl) ==
    UNION {(IF Matches(RelativeTo(item, top), incl)
            THEN {ResolvePath(item)} ELSE {})
           \cup FilterBelow(item, top, incl, excl) :
             item \in {c \in SubDirs(dir) : ~Matches(RelativeTo(c, top), excl)}}

SegLess(x, y) ==
    \E i, j \in DOMAIN Segments : i < j /\ Segments[i] = x /\ Segments[j] = y

RECURSIVE PathLess(_, _)
\* the order of Path objects: by parts
PathLess(a, b) ==
    IF a = <<>> THEN b # <<>>
    ELSE IF b = <<>> THEN FALSE
    ELSE IF Head(a) = Head(b) THEN PathLess(Tail(a), Tail(b))
    ELSE SegLess(Head(a), Head(b))

RECURSIVE Sorted(_)
Sorted(S) ==
    IF S = {} THEN <<>>
    ELSE LET m == CHOOSE x \in S : \A y \in S : x = y \/ PathLess(x, y)
         IN  <<m>> \o Sorted(S \ {m})

\* filter_folders(root_path, include_patterns, exclude_patterns)
FilterFolders(root_path, incl, excl) ==
    IF ~IsDir(root_path) THEN <<>>
    ELSE Sorted((IF /\ ~Matches(Str(root_path), excl)
                    /\ Matches(Str(root_path), OrStar(incl))
                 THEN {ResolvePath(root_path)} ELSE {})
                \cup FilterBelow(root_path, root_path, OrStar(incl), excl))

\* (folder / "BCLConvert").is_dir()
HasBclConvert(folder) == fs[Realpath(folder)].bclconvert

\* the marker check is left out
HasMarker_Always(folder) == TRUE

\* any(f.is_file() for f in valid_marker_files): CopyComplete.txt beside the
\* folder, or fastq/Logs/FastqComplete.txt inside its BCLConvert
HasMarker(folder) ==
    \/ Realpath(folder) # <<>> /\ fs[Parent(Realpath(folder))].copy_complete
    \/ fs[Realpath(folder)].fastq_complete

\* the files of one report name that exist, in the order of the candidates
ReportPaths(folder, name) ==
    SelectSeq(ReportLocations,
              LAMBDA l : l \in fs[Realpath(folder)].reports[name])

\* the validator of the three path tuples: none may be empty
FromPathValid(folder) ==
    \A name \in ReportNames : ReportPaths(folder, name) # <<>>

\* BCLConvertFolder.from_path(folder)
FromPath(folder) ==
    [path |-> folder,
     demultiplex_stats_paths |-> ReportPaths(folder, "Demultiplex_Stats.csv"),
     quality_metrics_paths |-> ReportPaths(folder, "Quality_Metrics.csv"),
     fastq_list_paths |-> ReportPaths(folder, "fastq_list.csv")]

\* one root; a child root before its umbrella root; one directory given twice,
\* once by way of ".."
RootLists ==
    {<<<<"r">>>>, <<<<"r", "a">>, <<"r">>>>,
     <<<<"r", "b", "..", "a">>, <<"r", "a">>>>}

IncludeChoices == {{}, {<<"a">>}, {<<"*", "/", "b">>}}

ExcludeChoices == {{}, {<<"a">>}, {<<"b">>}, {<<"/", "r">>}}

ScanInit ==
    /\ fs \in Trees
    /\ root_paths \in RootLists
    /\ include_patterns \in IncludeChoices
    /\ exclude_patterns \in ExcludeChoices
    /\ scan_pc = "root"
    /\ root_idx = 1
    /\ folders = <<>>
    /\ bcl_convert_folders = {}

\* a root that is no directory ends the scan
ScanRoot_StopAtMissingRoot ==
    /\ scan_pc = "root"
    /\ root_idx <= Len(root_paths)
    /\ folders' = FilterFolders(root_paths[root_idx], include_patterns,
                                exclude_patterns)
    /\ scan_pc' = IF IsDir(root_paths[root_idx]) THEN "folders" ELSE "done"
    /\ UNCHANGED <<fs, root_paths, include_patterns, exclude_patterns,
                   root_idx, bcl_convert_folders>>
    /\ UNCHANGED <<pvars, cvars, mvars, lvars, fvars, kvars>>

\* for root_path in root_paths: the folders of the next root are listed
ScanRoot ==
    /\ scan_pc = "root"
    /\ root_idx <= Len(root_paths)
    /\ folders' = FilterFolders(root_paths[root_idx], include_patterns,
                                exclude_patterns)
    /\ scan_pc' = "folders"
    /\ UNCHANGED <<fs, root_paths, include_patterns, exclude_patterns,
                   root_idx, bcl_convert_folders>>
    /\ UNCHANGED <<pvars, cvars, mvars, lvars, fvars, kvars>>

\* the ValidationError of from_path is not caught
VisitFolder_ValidationErrorEscapes ==
    /\ scan_pc = "folders"
    /\ folders # <<>>
    /\ LET folder == Head(folders) IN
       /\ bcl_convert_folders' =
              IF HasBclConvert(folder) /\ HasMarker(folder) /\ FromPathValid(folder)
              THEN bcl_convert_folders \cup {FromPath(folder)}
              ELSE bcl_convert_folders
       /\ scan_pc' =
              IF HasBclConvert(folder) /\ HasMarker(folder) /\ ~FromPathValid(folder)
              THEN "raised" ELSE scan_pc
    /\ folders' = Tail(folders)
    /\ UNCHANGED <<fs, root_paths, include_patterns, exclude_patterns,
                   root_idx>>
    /\ UNCHANGED <<pvars, cvars, mvars, lvars, fvars, kvars>>

\* one pass of the inner loop
VisitFolder ==
    /\ scan_pc = "folders"
    /\ folders # <<>>
    /\ LET folder == Head(folders) IN
       bcl_convert_folders' =
           IF ~HasBclConvert(folder) THEN bcl_convert_folders
           ELSE IF ~HasMarker(folder) THEN bcl_convert_folders
           ELSE IF ~FromPathValid(folder) THEN bcl_convert_folders
           ELSE bcl_convert_folders \cup {FromPath(folder)}
    /\ folders' = Tail(folders)
    /\ UNCHANGED <<fs, root_paths, include_patterns, exclude_patterns,
                   scan_pc, root_idx>>
    /\ UNCHANGED <<pvars, cvars, mvars, lvars, fvars, kvars>>

\* the inner loop is over
NextRoot ==
    /\ scan_pc = "folders"
    /\ folders = <<>>
    /\ root_idx' = root_idx + 1
    /\ scan_pc' = "root"
    /\ UNCHANGED <<fs, root_paths, include_patterns, exclude_patterns,
                   folders, bcl_convert_folders>>
    /\ UNCHANGED <<pvars, cvars, mvars, lvars, fvars, kvars>>

\* return bcl_convert_folders
ScanDone ==
    /\ scan_pc = "root"
    /\ root_idx > Len(root_paths)
    /\ scan_pc' = "done"
    /\ UNCHANGED <<fs, root_paths, include_patterns, exclude_patterns,
                   root_idx, folders, bcl_convert_folders>>
    /\ UNCHANGED <<pvars, cvars, mvars, lvars, fvars, kvars>>

ScanNext ==
    \/ ScanRoot
    \/ VisitFolder
    \/ NextRoot
    \/ ScanDone

InitScan ==
    /\ ScanInit
    /\ ParseIdle /\ CombineIdle /\ ConvertIdle
    /\ CliIdle /\ PairsIdle /\ ClientIdle

SpecScan == InitScan /\ [][ScanNext]_vars

ReturnedPaths == {f.path : f \in bcl_convert_folders}

Roots == {root_paths[i] : i \in 1..Len(root_paths)}

HasAllReports(n) == \A name \in ReportNames : fs[n].reports[name] # {}

\* C9: every returned folder holds a BCLConvert sub-directory and has a
\* completion marker: CopyComplete.txt two levels above BCLConvert, or
\* fastq/Logs/FastqComplete.txt inside it; the scan ends in no error.
C9_ReturnedOnlyWithMarker ==
    /\ scan_pc \in {"root", "folders", "done"}
    /\ \A n \in ReturnedPaths :
          /\ fs[n].exists
          /\ fs[n].bclconvert
          /\ \/ n # <<>> /\ fs[Parent(n)].copy_complete
             \/ fs[n].fastq_complete

\* a scan returned a folder and passed over a listed candidate that holds
\* BCLConvert and every report but has neither marker
C9_Witness ==
    /\ scan_pc = "done"
    /\ ReturnedPaths # {}
    /\ \E root \in Roots : \E i \in 1..Len(FilterFolders(root, include_patterns, exclude_patterns)) :
          LET n == FilterFolders(root, include_patterns, exclude_patterns)[i] IN
          /\ fs[n].bclconvert
          /\ HasAllReports(n)
          /\ ~fs[Parent(n)].copy_complete
          /\ ~fs[n].fastq_complete
          /\ n \notin ReturnedPaths

\* directory n lies strictly below root and neither it nor a directory
\* between root and it matches an exclude pattern
OutsideExcluded(n, root) ==
    /\ IsDir(root)
    /\ IsPrefix(Realpath(root), n)
    /\ Len(n) > Len(Realpath(root))
    /\ \A k \in (Len(Realpath(root)) + 1)..Len(n) :
          ~Matches(RelativeTo(SubSeq(n, 1, k), Realpath(root)),
                   exclude_patterns)

\* C10: once the scan is over, every directory strictly below a root and
\* outside the excluded subtrees, whose relative path matches an include
\* pattern (any, when none are given), that holds BCLConvert, a completion
\* marker and all three reports, is among the returned folders.
C10_EligibleFoldersReturned ==
    scan_pc = "done" =>
        \A root \in Roots : \A n \in Nodes :
            ( /\ fs[n].exists
              /\ OutsideExcluded(n, root)
              /\ (include_patterns = {}
                    \/ Matches(RelativeTo(n, Realpath(root)), include_patterns))
              /\ fs[n].bclconvert
              /\ (fs[Parent(n)].copy_complete \/ fs[n].fastq_complete)
              /\ HasAllReports(n) )
            => n \in ReturnedPaths

\* /r/a/b was returned for the root /r under an include pattern that /r/a
\* does not match
C10_Witness ==
    /\ scan_pc = "done"
    /\ <<"r">> \in Roots
    /\ include_patterns # {}
    /\ ~Matches(RelativeTo(<<"r", "a">>, <<"r">>), include_patterns)
    /\ Matches(RelativeTo(<<"r", "a", "b">>, <<"r">>), include_patterns)
    /\ <<"r", "a", "b">> \in ReturnedPaths

\* the folders filter_folders lists for the i-th root
ListedFrom(i) ==
    LET l == FilterFolders(root_paths[i], include_patterns, exclude_patterns)
    IN  {Realpath(l[k]) : k \in 1..Len(l)}

\* C11: the result holds every physical run folder once, however many roots
\* reach it, and different run folders are different entries.
C11_OneEntryPerPhysicalFolder ==
    /\ \A f, g \in bcl_convert_folders :
          Realpath(f.path) = Realpath(g.path) => f = g
    /\ Cardinality(bcl_convert_folders) =
          Cardinality({Realpath(f.path) : f \in bcl_convert_folders})

\* a returned run folder was listed from two roots, and a second run folder
\* under the same umbrella root was returned as well
C11_Witness ==
    /\ scan_pc = "done"
    /\ \E i, j \in 1..Len(root_paths) : \E f, g \in bcl_convert_folders :
          /\ i # j
          /\ f.path \in ListedFrom(i) \cap ListedFrom(j)
          /\ g.path \in ListedFrom(j)
          /\ f.path # g.path

\* the walk from the i-th root reaches n without passing a directory, the
\* root included, that matches an exclude pattern
ReachedUnexcluded(n, i) ==
    LET root == root_paths[i] IN
    /\ IsDir(root)
    /\ IsPrefix(Realpath(root), n)
    /\ ~Matches(Str(root), exclude_patterns)
    /\ \A k \in (Len(Realpath(root)) + 1)..Len(n) :
          ~Matches(RelativeTo(SubSeq(n, 1, k), Realpath(root)),
                   exclude_patterns)

\* C12: no directory that matches an exclude pattern, the root itself
\* included, and no directory beneath one is returned: every returned folder
\* is reached from some root past unexcluded directories only.
C12_ExcludedSubtreesPruned ==
    \A n \in ReturnedPaths : \E i \in 1..Len(root_paths) : ReachedUnexcluded(n, i)

\* the same with the root itself left out of the exclusion
C12_BelowRootPruned ==
    \A n \in ReturnedPaths : \E i \in 1..Len(root_paths) :
        /\ IsDir(root_paths[i])
        /\ IsPrefix(Realpath(root_paths[i]), n)
        /\ \A k \in (Len(Realpath(root_paths[i])) + 1)..Len(n) :
              ~Matches(RelativeTo(SubSeq(n, 1, k), Realpath(root_paths[i])),
                       exclude_patterns)

\* what a scan of the given roots returns
ScanResult(roots) ==
    {FromPath(n) :
        n \in {m \in UNION {LET l == FilterFolders(roots[i], include_patterns,
                                                  exclude_patterns)
                            IN  {l[k] : k \in 1..Len(l)} : i \in 1..Len(roots)} :
                 HasBclConvert(m) /\ HasMarker(m) /\ FromPathValid(m)}}

\* C13: a root that does not exist or is no directory raises nothing and
\* contributes nothing: the scan ends, and its result is the result of
\* scanning the list without such roots.
C13_MissingRootContributesNothing ==
    /\ scan_pc \in {"root", "folders", "done"}
    /\ \A i \in 1..Len(root_paths) :
          ~IsDir(root_paths[i]) =>
              FilterFolders(root_paths[i], include_patterns, exclude_patterns) = <<>>
    /\ scan_pc = "done" =>
          bcl_convert_folders = ScanResult(SelectSeq(root_paths, IsDir))

\* the first root did not exist and a folder of a later root was returned
C13_Witness ==
    /\ scan_pc = "done"
    /\ Len(root_paths) > 1
    /\ ~IsDir(root_paths[1])
    /\ bcl_convert_folders # {}

\* a listed candidate with BCLConvert and a marker
MarkedCandidate(n) ==
    /\ fs[n].bclconvert
    /\ (n # <<>> /\ fs[Parent(n)].copy_complete) \/ fs[n].fastq_complete

\* C14: a marked candidate that lacks a report at every location is left
\* out, no error leaves the scan, and every other marked candidate with all
\* three reports, listed before or after it, is returned.
C14_IncompleteFolderSkipped ==
    /\ scan_pc \in {"root", "folders", "done"}
    /\ \A n \in ReturnedPaths : HasAllReports(n)
    /\ scan_pc = "done" =>
          \A i \in 1..Len(root_paths) : \A n \in ListedFrom(i) :
              (MarkedCandidate(n) /\ HasAllReports(n)) => n \in ReturnedPaths

\* one root listed a marked candidate lacking a report between two folders
\* that were returned
C14_Witness ==
    /\ scan_pc = "done"
    /\ \E i \in 1..Len(root_paths) :
          LET l == FilterFolders(root_paths[i], include_patterns,
                                 exclude_patterns) IN
          \E p, q, r \in 1..Len(l) :
              /\ p < q /\ q < r
              /\ MarkedCandidate(l[q]) /\ ~HasAllReports(l[q])
              /\ l[q] \notin ReturnedPaths
              /\ l[p] \in ReturnedPaths
              /\ l[r] \in ReturnedPaths

\* the first candidate location, in priority order, where the report exists
FirstLocation(n, name) ==
    ReportLocations[CHOOSE k \in DOMAIN ReportLocations :
        /\ ReportLocations[k] \in fs[n].reports[name]
        /\ \A j \in 1..(k - 1) : ReportLocations[j] \notin fs[n].reports[name]]

\* C15: from_path resolves, for each report, exactly one file: the first
\* candidate location that exists; lower-priority locations are not used.
C15_FirstCandidateOnly ==
    \A f \in bcl_convert_folders :
        /\ f.demultiplex_stats_paths =
              <<FirstLocation(f.path, "Demultiplex_Stats.csv")>>
        /\ f.quality_metrics_paths =
              <<FirstLocation(f.path, "Quality_Metrics.csv")>>
        /\ f.fastq_list_paths = <<FirstLocation(f.path, "fastq_list.csv")>>

(***************************************************************************)
(* SequencingFile.from_bclconvert.  Here a sample id is the sequence of    *)
(* its characters, a quotient is kept as numerator and denominator, and a  *)
(* missing path (None) is <<>>, a missing record id (None) is 0.            *)
(***************************************************************************)
HexDigits ==
    {"0", "1", "2", "3", "4", "5", "6", "7", "8", "9", "a", "b", "c", "d",
     "e", "f", "A", "B", "C", "D", "E", "F"}

\* the length of 8-4-4-4-12 hexadecimal digits with their four hyphens
UuidLength == 36

\* where the hyphens of UUID_RE stand
HyphenPositions == {9, 14, 19, 24}

\* UUID_RE matches s at position i
UuidMatchesAt(s, i) ==
    /\ i + UuidLength - 1 <= Len(s)
    /\ \A k \in 1..UuidLength :
          IF k \in HyphenPositions THEN s[i + k - 1] = "-"
          ELSE s[i + k - 1] \in HexDigits

RECURSIVE UuidSearchFrom(_, _)
UuidSearchFrom(s, i) ==
    IF i > Len(s) THEN 0
    ELSE IF UuidMatchesAt(s, i) THEN i
    ELSE UuidSearchFrom(s, i + 1)

RECURSIVE UuidSearchBackFrom(_, _)
UuidSearchBackFrom(s, i) ==
    IF i < 1 THEN 0
    ELSE IF UuidMatchesAt(s, i) THEN i
    ELSE UuidSearchBackFrom(s, i - 1)

\* a search that takes the last match
UuidSearch_Last(s) == UuidSearchBackFrom(s, Len(s))

\* UUID_RE.search(s): the position of the leftmost match, 0 for None
UuidSearch(s) == UuidSearchFrom(s, 1)

\* sample_guid.group()
UuidGroup(s) == SubSeq(s, UuidSearch(s), UuidSearch(s) + UuidLength - 1)

Lower(ch) ==
    IF ch = "A" THEN "a" ELSE IF ch = "B" THEN "b" ELSE IF ch = "C" THEN "c"
    ELSE IF ch = "D" THEN "d" ELSE IF ch = "E" THEN "e"
    ELSE IF ch = "F" THEN "f" ELSE ch

\* UUID(str): the value, written in lower case
ToUUID(str) == [k \in 1..Len(str) |-> Lower(str[k])]

\* the quotient n / d
Quotient(n, d) == [num |-> n, den |-> d]

\* 1_000_000_000
Giga == 1000000000

\* the stand-in for the read-2 metrics, its sums left as those of read 1
DummyQc2_NotZeroed(qc1) == [qc1 EXCEPT !.read_number = 2]

\* the stand-in for the read-2 metrics of a single-end sample
DummyQc2(qc1) ==
    [qc1 EXCEPT !.read_number = 2, !.yield_ = 0, !.yield_q30 = 0,
                !.quality_score_sum = 0]

Qc2(data) ==
    IF HasRead2(data) THEN data["quality_metrics_read2"]
    ELSE DummyQc2(data["quality_metrics_read1"])

\* the exception from_bclconvert raises, or "none"
FromBclconvertError(data) ==
    IF UuidSearch(data["fastq"].sample_id) = 0 THEN "ValueError"
    ELSE IF data["quality_metrics_read1"].yield_ + Qc2(data).yield_ = 0
    THEN "ZeroDivisionError"
    ELSE "none"

\* the SequencingFile from_bclconvert returns
FromBclconvert(data) ==
    LET qc1 == data["quality_metrics_read1"]
        qc2 == Qc2(data)
    IN  [record_id |-> 0,
         sample_guid |-> ToUUID(UuidGroup(data["fastq"].sample_id)),
         fastq_path_R1 |-> data["fastq"].read1_file,
         fastq_path_R2 |-> data["fastq"].read2_file,
         fastq_path_I1 |-> <<>>,
         fastq_path_I2 |-> <<>>,
         sample_name |-> data["fastq"].sample_id,
         all_files_available |-> TRUE,
         readsPf |-> data["demux_stats"].num_reads,
         perfectIndexReadPercent |->
             100 * data["demux_stats"].percent_perfect_index_reads,
         oneMismatchIndexReadPercent |->
             100 * data["demux_stats"].percent_one_mismatch_index_reads,
         pfClustersPercentPerLane |-> 100 * data["demux_stats"].percent_reads,
         yieldPfGb |-> Quotient(qc1.yield_ + qc2.yield_, Giga),
         basesQ30Percent |->
             Quotient(100 * (qc1.yield_q30 + qc2.yield_q30),
                      qc1.yield_ + qc2.yield_),
         averageQScore |->
             Quotient(qc1.quality_score_sum + qc2.quality_score_sum,
                      qc1.yield_ + qc2.yield_)]

\* a count that takes the read-2 path for present whenever read 1 is
DataReadPasses_Read1Only(sf) == IF sf.fastq_path_R1 # <<>> THEN 2 ELSE 0

\* the computed field dataReadPasses, 0 for None
DataReadPasses(sf) ==
    IF sf.fastq_path_R1 # <<>> /\ sf.fastq_path_R2 # <<>> THEN 2
    ELSE IF sf.fastq_path_R1 # <<>> THEN 1
    ELSE 0

\* a canonical UUID of one repeated digit
UuidOf(ch) == [k \in 1..UuidLength |-> IF k \in HyphenPositions THEN "-" ELSE ch]

SampleIds ==
    { <<"s", "1">>,
      UuidOf("1"),
      <<"S", "_">> \o UuidOf("2") \o <<"_", "L", "1">>,
      UuidOf("a") \o <<"_">> \o UuidOf("b"),
      <<"a", "b">> \o UuidOf("c"),
      UuidOf("D"),
      UuidOf("g"),
      SubSeq(UuidOf("e"), 1, UuidLength - 1),
      <<"x">> \o SubSeq(UuidOf("e"), 2, UuidLength) }

\* the valid CombinedSampleData objects of one sample: single-end or
\* paired-end, with the yields of the reads drawn from {0, 40} and {0, 10}
ConvertInputs ==
    LET fq(sid, r2) ==
            [FastqListEntry(LineInfo("fastq",
                 FastqLine("s1", "../s1_R1_001.fastq.gz", r2)))
                EXCEPT !.sample_id = sid]
        dm(sid, reads) ==
            [DemuxStats(LineInfo("demux", DemuxLine("s1", reads)))
                EXCEPT !.sample_id = sid]
        qm(sid, rn, y) ==
            [QualityMetrics(LineInfo("quality", QualityLine("s1", rn, y)))
                EXCEPT !.sample_id = sid]
    IN  {[k \in {"fastq", "demux_stats", "quality_metrics_read1"} |->
             IF k = "fastq" THEN fq(sid, "")
             ELSE IF k = "demux_stats" THEN dm(sid, reads)
             ELSE qm(sid, "1", y1)] :
            sid \in SampleIds, reads \in {"10", "20"}, y1 \in {"0", "40"}}
        \cup
        {[k \in {"fastq", "demux_stats", "quality_metrics_read1",
                 "quality_metrics_read2"} |->
             IF k = "fastq" THEN fq(sid, "../s1_R2_001.fastq.gz")
             ELSE IF k = "demux_stats" THEN dm(sid, reads)
             ELSE IF k = "quality_metrics_read1" THEN qm(sid, "1", y1)
             ELSE qm(sid, "2", y2)] :
            sid \in SampleIds, reads \in {"10", "20"}, y1 \in {"0", "40"},
            y2 \in {"0", "10"}}

\* Largest number of calls of from_bclconvert with one record
MaxCalls == 2

ConvertInit ==
    /\ sf_input \in ConvertInputs
    /\ sf_pc = "call"
    /\ sf_result = <<>>
    /\ sf_error = "none"
    /\ sf_calls = 0

\* the stand-in for read 2 is the read-1 object itself, not a copy of it
InputAfterMapping_DummyIsAlias(data) ==
    IF HasRead2(data) THEN data
    ELSE [data EXCEPT !["quality_metrics_read1"] = DummyQc2(@)]

\* combined_data after lines 158-168: qc2 is a new object built from a dump
\* of qc1, and the four assignments go to it; nothing is assigned to
\* combined_data or to qc1
InputAfterMapping(data) == data

\* SequencingFile.from_bclconvert(sf_input), for the first time or again
Convert ==
    /\ sf_calls < MaxCalls
    /\ sf_calls' = sf_calls + 1
    /\ sf_error' = FromBclconvertError(sf_input)
    /\ IF FromBclconvertError(sf_input) = "none"
       THEN /\ sf_pc' = "returned"
            /\ sf_result' = FromBclconvert(sf_input)
       ELSE /\ sf_pc' = "raised"
            /\ UNCHANGED sf_result
    /\ sf_input' = IF FromBclconvertError(sf_input) = "ValueError"
                   THEN sf_input ELSE InputAfterMapping(sf_input)
    /\ UNCHANGED <<pvars, cvars, svars, lvars, fvars, kvars>>

ConvertNext == Convert

InitConvert ==
    /\ ConvertInit
    /\ ParseIdle /\ CombineIdle /\ ScanIdle
    /\ CliIdle /\ PairsIdle /\ ClientIdle

SpecConvert == InitConvert /\ [][ConvertNext]_vars

\* the sample id holds a substring of canonical UUID form
HasUuid(sid) == \E i \in 1..Len(sid) : UuidMatchesAt(sid, i)

\* the first such substring
FirstUuid(sid) ==
    LET i == CHOOSE j \in 1..Len(sid) :
                 UuidMatchesAt(sid, j) /\ \A k \in 1..(j - 1) : ~UuidMatchesAt(sid, k)
    IN  SubSeq(sid, i, i + UuidLength - 1)

\* C16: from_bclconvert returns a record only for a sample id that holds a
\* substring of canonical UUID form; for any other id it raises and returns
\* nothing; the GUID of a returned record is the first such substring.
C16_GuidIsFirstUuidSubstring ==
    /\ sf_pc = "returned" =>
          /\ HasUuid(sf_input["fastq"].sample_id)
          /\ sf_result.sample_guid = ToUUID(FirstUuid(sf_input["fastq"].sample_id))
    /\ (sf_pc # "call" /\ ~HasUuid(sf_input["fastq"].sample_id)) =>
          /\ sf_pc = "raised"
          /\ sf_error = "ValueError"
          /\ sf_result = <<>>

\* a record was returned for a sample id that holds two different UUIDs
C16_Witness ==
    /\ sf_pc = "returned"
    /\ \E i, j \in 1..Len(sf_input["fastq"].sample_id) :
          /\ i < j
          /\ UuidMatchesAt(sf_input["fastq"].sample_id, i)
          /\ UuidMatchesAt(sf_input["fastq"].sample_id, j)

\* the summed yield of the reads of the input
SummedYield(data) ==
    data["quality_metrics_read1"].yield_
    + (IF HasRead2(data) THEN data["quality_metrics_read2"].yield_ ELSE 0)

\* C17: a summed yield of zero does not make from_bclconvert raise: for a
\* sample id with a UUID the call returns a record.
C17_ZeroYieldReturnsRecord ==
    ( /\ sf_pc # "call"
      /\ HasUuid(sf_input["fastq"].sample_id)
      /\ SummedYield(sf_input) = 0 )
    => sf_pc = "returned"

\* C18: with Y1 + Y2 > 0 the returned record has basesQ30Percent =
\* 100*(Q1+Q2)/(Y1+Y2), averageQScore = (S1+S2)/(Y1+Y2) and yieldPfGb =
\* (Y1+Y2)/10^9, where Y2 = Q2 = S2 = 0 for a single-end record.
C18_CombinedMetrics ==
    /\ ( /\ sf_pc # "call"
         /\ HasUuid(sf_input["fastq"].sample_id)
         /\ SummedYield(sf_input) > 0 )
       => sf_pc = "returned"
    /\ sf_pc = "returned" =>
        LET qc1 == sf_input["quality_metrics_read1"]
            paired == HasRead2(sf_input)
            Y2 == IF paired THEN sf_input["quality_metrics_read2"].yield_ ELSE 0
            Q2 == IF paired THEN sf_input["quality_metrics_read2"].yield_q30 ELSE 0
            S2 == IF paired
                  THEN sf_input["quality_metrics_read2"].quality_score_sum ELSE 0
        IN  /\ qc1.yield_ + Y2 > 0
            /\ sf_result.basesQ30Percent =
                  Quotient(100 * (qc1.yield_q30 + Q2), qc1.yield_ + Y2)
            /\ sf_result.averageQScore =
                  Quotient(qc1.quality_score_sum + S2, qc1.yield_ + Y2)
            /\ sf_result.yieldPfGb = Quotient(qc1.yield_ + Y2, Giga)

\* a single-end record was mapped: its yield is that of read 1 alone
C18_Witness ==
    /\ sf_pc = "returned"
    /\ ~HasRead2(sf_input)
    /\ sf_result.yieldPfGb.num = sf_input["quality_metrics_read1"].yield_
    /\ sf_result.yieldPfGb.num > 0

\* C19: dataReadPasses is 2 exactly when the input has a read-2 fastq file
\* and 1 otherwise, and the read-2 path of a single-end record is empty.
C19_ReadPassesFollowFastqFiles ==
    sf_pc = "returned" =>
        /\ DataReadPasses(sf_result) =
              (IF sf_input["fastq"].read2_file # NoPath THEN 2 ELSE 1)
        /\ sf_input["fastq"].read2_file = NoPath => sf_result.fastq_path_R2 = <<>>

\* a single-end record was mapped and reports one read
C19_Witness ==
    /\ sf_pc = "returned"
    /\ sf_input["fastq"].read2_file = NoPath
    /\ DataReadPasses(sf_result) = 1

(***************************************************************************)
(* cli(): the loop over the folders of the scan and over the items of each *)
(* folder's generator.  A generator either raises at its first next(), or  *)
(* yields its records and is exhausted: parse_bclconvert_folder yields     *)
(* only in its last loop, where nothing is raised.                         *)
(***************************************************************************)
MaxFolders == 2

\* Largest number of samples in the folders of one run
MaxSamples == 3

\* the CombinedSampleData of one sample
CliSample(sid, paired, y1) ==
    CHOOSE d \in ConvertInputs :
        /\ d["fastq"].sample_id = sid
        /\ HasRead2(d) = paired
        /\ d["demux_stats"].num_reads = 10
        /\ d["quality_metrics_read1"].yield_ = y1
        /\ paired => d["quality_metrics_read2"].yield_ = 10

GoodPaired == CliSample(UuidOf("1"), TRUE, 40)

GoodSingle == CliSample(<<"S", "_">> \o UuidOf("2") \o <<"_", "L", "1">>, FALSE, 40)

NoUuid == CliSample(<<"s", "1">>, FALSE, 40)

ZeroYield == CliSample(UuidOf("D"), FALSE, 0)

Generator(e, items) == [exc |-> e, samples |-> items]

\* what the generator of a folder may do: yield its records, or raise at
\* the first next(it), KeyError for a quality row of an unknown sample,
\* RuntimeError for the StopIteration an empty report raises inside it
Generators ==
    { Generator("none", <<>>),
      Generator("none", <<GoodPaired>>),
      Generator("none", <<GoodSingle, GoodPaired>>),
      Generator("none", <<NoUuid, GoodPaired>>),
      Generator("none", <<GoodSingle, ZeroYield>>),
      Generator("KeyError", <<>>),
      Generator("RuntimeError", <<>>) }

RECURSIVE AllSamples(_)
\* the records the generators of the folders yield, in order
AllSamples(fl) ==
    IF fl = <<>> THEN <<>> ELSE Head(fl).samples \o AllSamples(Tail(fl))

\* what the scan may return: at most MaxFolders folders that hold at most
\* MaxSamples samples together
FolderLists ==
    {fl \in UNION {[1..n -> Generators] : n \in 0..MaxFolders} :
        Len(AllSamples(fl)) <= MaxSamples}

\* the record ids the server holds
RecordIds == {1, 2}

\* the record id of the server's record for a GUID
RecordIdOf(guid) == IF guid = ToUUID(UuidOf("1")) THEN 1 ELSE 2

CliInit ==
    /\ cli_folders \in FolderLists
    /\ dry_run \in BOOLEAN
    /\ records_current \in BOOLEAN
    /\ cli_pc = "folder"
    /\ folder_idx = 1
    /\ it = <<>>
    /\ sample_data = <<>>
    /\ sequencing_file = <<>>
    /\ num_parsed_samples = 0
    /\ total_parsed_samples = 0
    /\ total_processed_folders = 0
    /\ calls = <<>>
    /\ cli_exc = "none"

\* for bcl_convert_folder in find_bclconvert_folders(...):
\*     it = parse_bclconvert_folder(bcl_convert_folder)
NextFolder ==
    /\ cli_pc = "folder"
    /\ folder_idx <= Len(cli_folders)
    /\ total_processed_folders' = total_processed_folders + 1
    /\ it' = cli_folders[folder_idx]
    /\ num_parsed_samples' = 0
    /\ cli_pc' = "next"
    /\ UNCHANGED <<cli_folders, dry_run, records_current, folder_idx, sample_data,
                   sequencing_file, total_parsed_samples, calls, cli_exc>>
    /\ UNCHANGED <<pvars, cvars, svars, mvars, fvars, kvars>>

\* a generator that raises at every next(it)
AfterRaise_RaisesAgain(g) == g

\* a generator that has raised is finished: its next next(it) raises
\* StopIteration
AfterRaise(g) == Generator("none", <<>>)

\* sample_data = next(it): an exception of the generator is logged and the
\* loop continues with the generator finished; StopIteration breaks the
\* loop; an item is counted
NextItem ==
    /\ cli_pc = "next"
    /\ IF it.exc # "none"
       THEN /\ it' = AfterRaise(it)
            /\ UNCHANGED <<cli_pc, folder_idx, sample_data, num_parsed_samples,
                           total_parsed_samples>>
       ELSE IF it.samples = <<>>
       THEN /\ cli_pc' = "folder"
            /\ folder_idx' = folder_idx + 1
            /\ total_parsed_samples' = total_parsed_samples + num_parsed_samples
            /\ UNCHANGED <<it, sample_data, num_parsed_samples>>
       ELSE /\ sample_data' = Head(it.samples)
            /\ it' = [it EXCEPT !.samples = Tail(@)]
            /\ num_parsed_samples' = num_parsed_samples + 1
            /\ cli_pc' = "convert"
            /\ UNCHANGED <<folder_idx, total_parsed_samples>>
    /\ UNCHANGED <<cli_folders, dry_run, records_current, sequencing_file,
                   total_processed_folders, calls, cli_exc>>
    /\ UNCHANGED <<pvars, cvars, svars, mvars, fvars, kvars>>

\* the client is used in a dry run as well
AfterMapping_AlwaysLookup(dry) == "lookup"

\* if args.dry_run: continue
AfterMapping(dry) == IF dry THEN "next" ELSE "lookup"

\* sequencing_file = SequencingFile.from_bclconvert(sample_data), outside any
\* try; then the dry-run test
ConvertSample ==
    /\ cli_pc = "convert"
    /\ IF FromBclconvertError(sample_data) # "none"
       THEN /\ cli_pc' = "crashed"
            /\ cli_exc' = FromBclconvertError(sample_data)
            /\ UNCHANGED sequencing_file
       ELSE /\ sequencing_file' = FromBclconvert(sample_data)
            /\ cli_pc' = AfterMapping(dry_run)
            /\ UNCHANGED cli_exc
    /\ UNCHANGED <<cli_folders, dry_run, records_current, folder_idx, it, sample_data,
                   num_parsed_samples, total_parsed_samples,
                   total_processed_folders, calls>>
    /\ UNCHANGED <<pvars, cvars, svars, mvars, fvars, kvars>>

\* the update is sent without the record id of the lookup
WithRecordId_Unset(sf, id) == sf

\* sequencing_file.record_id = record.record_id
WithRecordId(sf, id) == [sf EXCEPT !.record_id = id]

\* the record the server holds for a sample before any run has updated it
StaleRecord(sf, id) ==
    [sf EXCEPT !.record_id = id, !.fastq_path_R1 = <<>>,
               !.fastq_path_R2 = <<>>, !.all_files_available = FALSE]

\* what a lookup may give: the record of the server, as it was before any
\* run or, after an earlier run, holding everything this run would send;
\* None; or a failed request
LookupAnswers(sf, current) ==
    LET id == RecordIdOf(sf.sample_guid)
        rec == IF current THEN WithRecordId(sf, id) ELSE StaleRecord(sf, id)
    IN  {[status |-> "found", record_id |-> id, record |-> <<rec>>],
         [status |-> "none", record_id |-> 0, record |-> <<>>],
         [status |-> "HTTPError", record_id |-> 0, record |-> <<>>]}

\* the test of the lookup's result never sees None
RecordIsNone_Never(answer) == FALSE

\* if record is None
RecordIsNone(answer) == answer.status = "none"

\* record = client.find_sequencingfile_by_uuid(uuid)
Lookup ==
    /\ cli_pc = "lookup"
    /\ \E answer \in LookupAnswers(sequencing_file, records_current) :
         /\ calls' = Append(calls, [op |-> "find_sequencingfile_by_uuid",
                                    arg |-> sequencing_file.sample_guid,
                                    returned |-> answer])
         /\ IF answer.status = "HTTPError"
            THEN /\ cli_pc' = "crashed"
                 /\ cli_exc' = "HTTPError"
                 /\ UNCHANGED sequencing_file
            ELSE IF RecordIsNone(answer)
            THEN /\ cli_pc' = "next"
                 /\ UNCHANGED <<sequencing_file, cli_exc>>
            ELSE /\ sequencing_file' =
                       WithRecordId(sequencing_file, answer.record_id)
                 /\ cli_pc' = "update"
                 /\ UNCHANGED cli_exc
    /\ UNCHANGED <<cli_folders, dry_run, records_current, folder_idx, it, sample_data,
                   num_parsed_samples, total_parsed_samples,
                   total_processed_folders>>
    /\ UNCHANGED <<pvars, cvars, svars, mvars, fvars, kvars>>

\* client.update_record(sequencing_file)
UpdateRecord ==
    /\ cli_pc = "update"
    /\ \E answer \in {"ok", "HTTPError"} :
         /\ calls' = Append(calls, [op |-> "update_record",
                                    arg |-> sequencing_file,
                                    returned |-> answer])
         /\ IF answer = "HTTPError"
            THEN cli_pc' = "crashed" /\ cli_exc' = "HTTPError"
            ELSE cli_pc' = "next" /\ UNCHANGED cli_exc
    /\ UNCHANGED <<cli_folders, dry_run, records_current, folder_idx, it, sample_data,
                   sequencing_file, num_parsed_samples, total_parsed_samples,
                   total_processed_folders>>
    /\ UNCHANGED <<pvars, cvars, svars, mvars, fvars, kvars>>

\* the loop over the folders is over: the totals are logged
CliDone ==
    /\ cli_pc = "folder"
    /\ folder_idx > Len(cli_folders)
    /\ cli_pc' = "done"
    /\ UNCHANGED <<cli_folders, dry_run, records_current, folder_idx, it, sample_data,
                   sequencing_file, num_parsed_samples, total_parsed_samples,
                   total_processed_folders, calls, cli_exc>>
    /\ UNCHANGED <<pvars, cvars, svars, mvars, fvars, kvars>>

CliNext ==
    \/ NextFolder
    \/ NextItem
    \/ ConvertSample
    \/ Lookup
    \/ UpdateRecord
    \/ CliDone

InitCli ==
    /\ CliInit
    /\ ParseIdle /\ CombineIdle /\ ScanIdle
    /\ ConvertIdle /\ PairsIdle /\ ClientIdle

SpecCli == InitCli /\ [][CliNext]_vars

\* cli() runs on: a statement that can be executed is executed
SpecCliFair == SpecCli /\ WF_vars(CliNext)

\* no generator raises and every record can be mapped
AllSamplesValid ==
    /\ \A i \in 1..Len(cli_folders) : cli_folders[i].exc = "none"
    /\ \A k \in 1..Len(AllSamples(cli_folders)) :
          FromBclconvertError(AllSamples(cli_folders)[k]) = "none"

\* every lookup made so far returned a record
AllLookupsFound ==
    \A j \in 1..Len(calls) :
        calls[j].op = "find_sequencingfile_by_uuid" =>
            calls[j].returned.status = "found"

AllLookupsNone ==
    \A j \in 1..Len(calls) :
        calls[j].op = "find_sequencingfile_by_uuid" =>
            calls[j].returned.status = "none"

\* the calls of update_record made so far
Updates == {j \in 1..Len(calls) : calls[j].op = "update_record"}

\* the calls of find_sequencingfile_by_uuid made so far
Lookups == {j \in 1..Len(calls) : calls[j].op = "find_sequencingfile_by_uuid"}

\* C21: update_record is never called for a sample whose lookup returned no
\* record: the call after such a lookup, if there is one, is the lookup of
\* the next sample; a run without --dry-run over N valid samples whose
\* lookups all return None makes N lookups, one per sample in order, and no
\* update.
C21_NoUpdateWithoutRecord ==
    /\ \A j \in Lookups :
          calls[j].returned.status = "none" =>
              /\ j < Len(calls) => calls[j + 1].op = "find_sequencingfile_by_uuid"
              /\ j = Len(calls) =>
                    /\ cli_pc # "update"
                    /\ cli_pc = "crashed" => cli_exc # "HTTPError"
    /\ (cli_pc = "done" /\ ~dry_run /\ AllSamplesValid /\ AllLookupsNone) =>
          LET all == AllSamples(cli_folders) IN
          /\ Updates = {}
          /\ Len(calls) = Len(all)
          /\ \A k \in 1..Len(all) :
                calls[k].arg = FromBclconvert(all[k]).sample_guid

\* a run over two folders with three valid samples ended, every lookup
\* returned None and was followed by the lookup of the next sample
C21_Witness ==
    /\ cli_pc = "done"
    /\ ~dry_run
    /\ AllSamplesValid
    /\ AllLookupsNone
    /\ Len(cli_folders) = 2
    /\ Len(AllSamples(cli_folders)) = 3
    /\ Len(calls) = 3

\* C22: update_record is not called for a sample whose lookup returned a
\* record that already equals the record the run would send: every update
\* sends a record that differs from the one the lookup before it returned.
C22_NoUpdateOfUnchangedRecord ==
    \A j \in Updates :
        j > 1 /\ calls[j - 1].returned.status = "found" =>
            calls[j - 1].returned.record # <<calls[j].arg>>

\* every record the generators yield can be mapped
EverySampleMappable ==
    \A k \in 1..Len(AllSamples(cli_folders)) :
        FromBclconvertError(AllSamples(cli_folders)[k]) = "none"

\* C23: with --dry-run neither find_sequencingfile_by_uuid nor update_record
\* is called at any point of the run, while every record a generator yields
\* is still counted and mapped, and a run ends with every folder of the scan
\* processed and every yielded record counted in the totals.
C23_DryRunCallsNoClient ==
    dry_run =>
        /\ calls = <<>>
        /\ cli_pc \notin {"lookup", "update"}
        /\ (cli_pc = "next" /\ num_parsed_samples > 0) =>
              sequencing_file = FromBclconvert(sample_data)
        /\ (cli_pc = "done" /\ EverySampleMappable) =>
              /\ total_processed_folders = Len(cli_folders)
              /\ total_parsed_samples = Len(AllSamples(cli_folders))

\* a dry run over two folders ended with three records mapped and counted
C23_Witness ==
    /\ dry_run
    /\ cli_pc = "done"
    /\ Len(cli_folders) = 2
    /\ total_processed_folders = 2
    /\ total_parsed_samples = 3
    /\ sequencing_file = FromBclconvert(GoodPaired)

\* C24: a sample that cannot be mapped (no UUID in its sample id, or a
\* summed yield of zero) does not end the run: the exception of the mapping
\* never leaves the loop, so the samples and folders after it are reached.
C24_MappingFailureConfined ==
    ~(/\ cli_pc = "crashed"
      /\ cli_exc \in {"ValueError", "ZeroDivisionError"}
      /\ (it.samples # <<>> \/ folder_idx < Len(cli_folders)))

\* Largest number of paths the glob patterns of one call give
MaxFiles == 2

R1Suffix == <<"_", "R", "1", ".", "f", "a", "s", "t", "q">>

R2Suffix == <<"_", "R", "2", ".", "f", "a", "s", "t", "q">>

\* name.endswith(suffix)
EndsWith(name, suffix) ==
    /\ Len(name) >= Len(suffix)
    /\ SubSeq(name, Len(name) - Len(suffix) + 1, Len(name)) = suffix

\* p.name[:-len("_R1.fastq")]
PrefixOf(name) == SubSeq(name, 1, Len(name) - Len(R1Suffix))

\* the file names of the model
FileNames ==
    LET prefixes == {UuidOf("1"), <<"S", "_">> \o UuidOf("A"), <<"s", "1">>}
        suffixes == {R1Suffix, R2Suffix, R1Suffix \o <<".", "g", "z">>}
    IN  {p \o x : p \in prefixes, x \in suffixes}

\* the directories as the patterns spell them, "d" in two ways
DirSpellings == {"d", "./d", "e"}

FilePaths == [dir : DirSpellings, name : FileNames]

\* p.with_name(name)
WithName(p, name) == [p EXCEPT !.name = name]

\* p.resolve(), with /w the working directory
ResolveFile(p) ==
    [p EXCEPT !.dir = IF p.dir \in {"d", "./d"} THEN "/w/d" ELSE "/w/e"]

\* p.exists()
FileExists(disk, p) == ResolveFile(p) \in disk

PairFile(dir, prefix, suffix) == [dir |-> dir, name |-> prefix \o suffix]

\* the file systems of the model
PairDisks ==
    LET u1 == UuidOf("1")
        sa == <<"S", "_">> \o UuidOf("A")
        s1 == <<"s", "1">>
        gz == R1Suffix \o <<".", "g", "z">>
        pair(dir, prefix) ==
            {PairFile(dir, prefix, R1Suffix), PairFile(dir, prefix, R2Suffix)}
    IN  { {},
          pair("/w/d", u1),
          pair("/w/d", u1) \cup pair("/w/e", sa),
          pair("/w/d", u1) \cup pair("/w/e", u1),
          {PairFile("/w/d", u1, R1Suffix)} \cup pair("/w/d", s1),
          {PairFile("/w/e", sa, gz)} \cup pair("/w/e", sa) }

\* the lists glob.glob can give over all patterns: existing files, one file
\* possibly more than once
GlobResults(disk) ==
    UNION {[1..n -> {p \in FilePaths : FileExists(disk, p)}] : n \in 0..MaxFiles}

PairsInit ==
    /\ pair_disk \in PairDisks
    /\ r1_files = <<>>
    /\ pairs_pc = "glob"
    /\ file_idx = 1
    /\ seen = {}
    /\ uuid = <<>>
    /\ r1_abs = <<>>
    /\ r2_abs = <<>>
    /\ pairs_yielded = <<>>
    /\ pairs_exc = "none"

\* for pattern in globs: r1_files.extend(glob.glob(pattern, recursive=True))
GlobAll ==
    /\ pairs_pc = "glob"
    /\ r1_files' \in GlobResults(pair_disk)
    /\ pairs_pc' = "loop"
    /\ UNCHANGED <<pair_disk, file_idx, seen, uuid, r1_abs, r2_abs,
                   pairs_yielded, pairs_exc>>
    /\ UNCHANGED <<pvars, cvars, svars, mvars, lvars, kvars>>

\* one pass of "for path_str in r1_files": the three tests that continue,
\* then the locals are bound and the key is added to seen
VisitFile ==
    /\ pairs_pc = "loop"
    /\ file_idx <= Len(r1_files)
    /\ LET p == r1_files[file_idx]
           prefix == PrefixOf(p.name)
           r2_path == WithName(p, prefix \o R2Suffix)
       IN  IF \/ ~EndsWith(p.name, R1Suffix)
              \/ ~FileExists(pair_disk, r2_path)
              \/ UuidSearch(prefix) = 0
           THEN UNCHANGED <<seen, uuid, r1_abs, r2_abs>>
           ELSE /\ uuid' = <<ToUUID(UuidGroup(prefix))>>
                /\ r1_abs' = <<ResolveFile(p)>>
                /\ r2_abs' = <<ResolveFile(r2_path)>>
                /\ seen' = seen \cup {<<ToUUID(UuidGroup(prefix)),
                                       ResolveFile(p), ResolveFile(r2_path)>>}
    /\ file_idx' = file_idx + 1
    /\ UNCHANGED <<pair_disk, r1_files, pairs_pc, pairs_yielded, pairs_exc>>
    /\ UNCHANGED <<pvars, cvars, svars, mvars, lvars, kvars>>

\* the statement after the loop: yield uuid, r1_abs, r2_abs; a local that no
\* pass of the loop bound raises UnboundLocalError
YieldAfterLoop ==
    /\ pairs_pc = "loop"
    /\ file_idx > Len(r1_files)
    /\ IF uuid = <<>>
       THEN /\ pairs_pc' = "raised"
            /\ pairs_exc' = "UnboundLocalError"
            /\ UNCHANGED pairs_yielded
       ELSE /\ pairs_yielded' =
                  Append(pairs_yielded, <<uuid[1], r1_abs[1], r2_abs[1]>>)
            /\ pairs_pc' = "yielded"
            /\ UNCHANGED pairs_exc
    /\ UNCHANGED <<pair_disk, r1_files, file_idx, seen, uuid, r1_abs, r2_abs>>
    /\ UNCHANGED <<pvars, cvars, svars, mvars, lvars, kvars>>

\* the generator is resumed after its yield and returns
PairsReturn ==
    /\ pairs_pc = "yielded"
    /\ pairs_pc' = "done"
    /\ UNCHANGED <<pair_disk, r1_files, file_idx, seen, uuid, r1_abs, r2_abs,
                   pairs_yielded, pairs_exc>>
    /\ UNCHANGED <<pvars, cvars, svars, mvars, lvars, kvars>>

PairsNext ==
    \/ GlobAll
    \/ VisitFile
    \/ YieldAfterLoop
    \/ PairsReturn

InitPairs ==
    /\ PairsInit
    /\ ParseIdle /\ CombineIdle /\ ScanIdle
    /\ ConvertIdle /\ CliIdle /\ ClientIdle

SpecPairs == InitPairs /\ [][PairsNext]_vars

\* the tuples of the discovered files named <prefix>_R1.fastq whose
\* <prefix>_R2.fastq exists and whose prefix holds a UUID
DiscoveredPairs ==
    {<<ToUUID(FirstUuid(PrefixOf(r1_files[k].name))),
       ResolveFile(r1_files[k]),
       ResolveFile(WithName(r1_files[k],
                            PrefixOf(r1_files[k].name) \o R2Suffix))>> :
        k \in {j \in 1..Len(r1_files) :
                 /\ EndsWith(r1_files[j].name, R1Suffix)
                 /\ FileExists(pair_disk,
                        WithName(r1_files[j],
                                 PrefixOf(r1_files[j].name) \o R2Suffix))
                 /\ HasUuid(PrefixOf(r1_files[j].name))}}

\* C25: find_fastq_pairs never raises, and when it has returned it has
\* yielded exactly one tuple for every distinct discovered pair and nothing
\* else; with no pair discovered it has yielded nothing.
C25_OneTuplePerDiscoveredPair ==
    /\ pairs_pc # "raised"
    /\ pairs_pc = "done" =>
          /\ {pairs_yielded[k] : k \in 1..Len(pairs_yielded)} = DiscoveredPairs
          /\ Len(pairs_yielded) = Cardinality(DiscoveredPairs)

\* what holds of the code: a tuple that is yielded is one of the discovered
\* pairs, and each pair the loop has passed is in seen
C25_YieldedIsDiscovered ==
    /\ \A k \in 1..Len(pairs_yielded) : pairs_yielded[k] \in DiscoveredPairs
    /\ pairs_pc \in {"yielded", "done", "raised"} => seen = DiscoveredPairs

\* the place of a phase in the order the claim gives
PhaseRank(ph) ==
    IF ph = "fastq" THEN 1 ELSE IF ph = "demux" THEN 2
    ELSE IF ph = "quality" THEN 3 ELSE IF ph = "validate" THEN 4
    ELSE IF ph = "done" THEN 5 ELSE 6

\* no report is open, none is left partly read, and every loop over a report
\* is over
AllSourcesConsumed ==
    /\ open = "none"
    /\ ~unread
    /\ phase \in {"validate", "done"}

\* one step of the parser in the order of the claim
OrderedStep ==
    /\ phase' # phase =>
          \/ phase' = "raised"
          \/ PhaseRank(phase') = PhaseRank(phase) + 1
    /\ \A c \in Reports :
          (open' = c /\ open # c) => (phase = c /\ open = "none")
    /\ \A c \in Reports :
          rowsRead'[c] # rowsRead[c] =>
              /\ phase = c /\ open = c
              /\ \A d \in Reports :
                    PhaseRank(d) > PhaseRank(c) => rowsRead[d] = {}
              /\ yielded = <<>>
    /\ yielded' # yielded =>
          /\ AllSourcesConsumed
          /\ phase = "validate"
          /\ UNCHANGED <<open, rowsRead, combined_data>>

\* C26: the parser reads the fastq-list rows, then the demux-stats rows, then
\* the quality-metrics rows, and validates and yields only afterwards: a row
\* of a report is read only in the loop of that report, before any row of a
\* later report and before any record is yielded; the loops follow each other
\* in this order; a record is yielded only when no report is open or partly
\* read; a report is opened only when none is open.
C26_SourcesConsumedInOrderBeforeYield ==
    /\ [](open # "none" => open = phase)
    /\ [](yielded # <<>> => AllSourcesConsumed)
    /\ [][OrderedStep]_vars

\* the generator is exhausted after rows of all three reports were read and
\* two records were yielded
C26_Witness ==
    /\ phase = "done"
    /\ \A c \in Reports : rowsRead[c] # {}
    /\ Len(yielded) = 2

\* VeloxFieldListResponse.valid_pydantic_types: the mapping's keys
KnownFieldTypes ==
    {"STRING", "INTEGER", "LONG", "DOUBLE", "BOOLEAN", "DATE", "IDENTIFIER"}

\* VeloxFieldListResponse.valid_pydantic_types, for a key of the mapping
ValidPydanticTypes(t) ==
    IF t = "STRING" THEN {"str", "UUID"}
    ELSE IF t \in {"INTEGER", "LONG"} THEN {"int"}
    ELSE IF t = "DOUBLE" THEN {"float"}
    ELSE IF t = "BOOLEAN" THEN {"bool"}
    ELSE {"str"}

\* typing.get_args: the members of a union, nothing for a plain class
GetArgs(annotation) == IF Cardinality(annotation) > 1 THEN annotation ELSE {}

ModelField(name, alias, annotation) ==
    [name |-> name, alias |-> alias, annotation |-> annotation]

\* SequencingFile.model_fields, in the order of definition: the field of
\* SapioRecord first; "" stands for no alias
ModelFields ==
    << ModelField("record_id", "RecordId", {"int", "NoneType"}),
       ModelField("sample_guid", "SampleGuid", {"UUID"}),
       ModelField("all_files_available", "AllFilesAvailable", {"bool"}),
       ModelField("readsPf", "", {"int", "NoneType"}) >>

\* the data types a server may give a field; ENUM is no key of the mapping
ServerFieldTypes == {"STRING", "INTEGER", "BOOLEAN", "ENUM"}

RECURSIVE FieldLists(_)
\* the field lists of the model: for each of the first k fields of the class
\* the server lists it under its alias (its name, without alias) with one of
\* the data types, or does not list it
FieldLists(k) ==
    IF k = 0 THEN {<<>>}
    ELSE LET f == ModelFields[k]
             listed == IF f.alias = "" THEN f.name ELSE f.alias
         IN  FieldLists(k - 1)
             \cup {Append(l, [dataFieldName |-> listed, dataFieldType |-> t]) :
                      l \in FieldLists(k - 1), t \in ServerFieldTypes}

ClientInit ==
    /\ status_code \in {200, 204, 404}
    /\ sapio_fields \in FieldLists(Len(ModelFields))
    /\ client_pc = "get"
    /\ field_pos = 1
    /\ matching_field = <<>>
    /\ invalid_classes = {}
    /\ client_exc = "none"

\* response = client._session.get(url); response.raise_for_status();
\* if response.status_code != 200: invalid_classes.add(cls); continue
GetFieldList ==
    /\ client_pc = "get"
    /\ IF status_code >= 400
       THEN /\ client_pc' = "raised"
            /\ client_exc' = "HTTPError"
            /\ UNCHANGED invalid_classes
       ELSE IF status_code # 200
       THEN /\ invalid_classes' = invalid_classes \cup {"SequencingFile"}
            /\ client_pc' = "return"
            /\ UNCHANGED client_exc
       ELSE /\ client_pc' = "fields"
            /\ UNCHANGED <<invalid_classes, client_exc>>
    /\ UNCHANGED <<status_code, sapio_fields, field_pos, matching_field>>
    /\ UNCHANGED <<pvars, cvars, svars, mvars, lvars, fvars>>

\* f.dataFieldName == field or f.dataFieldName == field_info.alias
FieldMatches(f, field) ==
    \/ f.dataFieldName = field.name
    \/ field.alias # "" /\ f.dataFieldName = field.alias

\* next(f for f in sapio_fields if ...): the position of the first match, 0
\* for StopIteration
FirstMatch(fields, field) ==
    IF \E k \in 1..Len(fields) : FieldMatches(fields[k], field)
    THEN CHOOSE k \in 1..Len(fields) :
             /\ FieldMatches(fields[k], field)
             /\ \A j \in 1..(k - 1) : ~FieldMatches(fields[j], field)
    ELSE 0

\* not (field_annotation | set(matching_field.valid_pydantic_types))
IncompatibleTypes(field_annotation, valid_types) ==
    field_annotation \cup valid_types = {}

\* one pass of "for field, field_info in cls.model_fields.items()": a field
\* that is not found marks the class and leaves matching_field as it was,
\* unbound in the first pass; the type test follows in either case
CheckField ==
    /\ client_pc = "fields"
    /\ field_pos <= Len(ModelFields)
    /\ LET field == ModelFields[field_pos]
           k == FirstMatch(sapio_fields, field)
           found == IF k = 0 THEN matching_field ELSE <<sapio_fields[k]>>
           missing == IF k = 0 THEN {"SequencingFile"} ELSE {}
       IN  /\ matching_field' = found
           /\ IF found = <<>>
              THEN /\ client_pc' = "raised"
                   /\ client_exc' = "UnboundLocalError"
                   /\ invalid_classes' = invalid_classes \cup missing
                   /\ UNCHANGED field_pos
              ELSE IF found[1].dataFieldType \notin KnownFieldTypes
              THEN /\ client_pc' = "raised"
                   /\ client_exc' = "KeyError"
                   /\ invalid_classes' = invalid_classes \cup missing
                   /\ UNCHANGED field_pos
              ELSE /\ invalid_classes' =
                         invalid_classes \cup missing \cup
                         (IF IncompatibleTypes(GetArgs(field.annotation),
                                 ValidPydanticTypes(found[1].dataFieldType))
                          THEN {"SequencingFile"} ELSE {})
                   /\ field_pos' = field_pos + 1
                   /\ UNCHANGED <<client_pc, client_exc>>
    /\ UNCHANGED <<status_code, sapio_fields>>
    /\ UNCHANGED <<pvars, cvars, svars, mvars, lvars, fvars>>

\* the loop over the fields is over
FieldsChecked ==
    /\ client_pc = "fields"
    /\ field_pos > Len(ModelFields)
    /\ client_pc' = "return"
    /\ UNCHANGED <<status_code, sapio_fields, field_pos, matching_field,
                   invalid_classes, client_exc>>
    /\ UNCHANGED <<pvars, cvars, svars, mvars, lvars, fvars>>

\* if invalid_classes := get_invalid_sapiorecords(self): raise ValueError
RaiseIfInvalid ==
    /\ client_pc = "return"
    /\ IF invalid_classes # {}
       THEN client_pc' = "raised" /\ client_exc' = "ValueError"
       ELSE client_pc' = "constructed" /\ UNCHANGED client_exc
    /\ UNCHANGED <<status_code, sapio_fields, field_pos, matching_field,
                   invalid_classes>>
    /\ UNCHANGED <<pvars, cvars, svars, mvars, lvars, fvars>>

ClientNext ==
    \/ GetFieldList
    \/ CheckField
    \/ FieldsChecked
    \/ RaiseIfInvalid

InitClient ==
    /\ ClientInit
    /\ ParseIdle /\ CombineIdle /\ ScanIdle
    /\ ConvertIdle /\ CliIdle /\ PairsIdle

SpecClient == InitClient /\ [][ClientNext]_vars

\* the Python types a server data type stands for; none for a data type the
\* client does not know
PythonTypesOf(t) == IF t \in KnownFieldTypes THEN ValidPydanticTypes(t) ELSE {}

\* every field of the class is among the server's fields, by name or alias,
\* with a data type that shares a Python type with the field's declared types
ClassUsable ==
    \A n \in 1..Len(ModelFields) :
        \E k \in 1..Len(sapio_fields) :
            /\ FieldMatches(sapio_fields[k], ModelFields[n])
            /\ ModelFields[n].annotation
                   \cap PythonTypesOf(sapio_fields[k].dataFieldType) # {}

\* C27: with the field list delivered (status 200), constructing a
\* SapioClient ends in ValueError whenever some field of the class is not
\* listed or is listed with a data type that shares no Python type with the
\* field's declared types, and it succeeds only when the class is usable.
C27_ConstructionFailsForUnusableClass ==
    /\ client_pc = "constructed" => ClassUsable
    /\ (status_code = 200 /\ client_pc = "raised" /\ ~ClassUsable) =>
          client_exc = "ValueError"

\* what holds of the code: with every field listed under a known data type
\* the construction succeeds, whatever the data types are
C27_ListedFieldsAlwaysAccepted ==
    (/\ client_pc \in {"constructed", "raised"}
     /\ status_code = 200
     /\ \A n \in 1..Len(ModelFields) :
           /\ FirstMatch(sapio_fields, ModelFields[n]) # 0
           /\ sapio_fields[FirstMatch(sapio_fields, ModelFields[n])]
                  .dataFieldType \in KnownFieldTypes)
    => client_pc = "constructed"

\* the fragments of the sample-id mapping, by key
Fragments == combined_data.val

\* the rows of a fragment carry the key as their sample id
RowsCarryKey(k) ==
    \A f \in DOMAIN Fragments[k] : Fragments[k][f].sample_id = k

\* the quality rows of a fragment stand under the key of their read number
ReadNumbersFit(k) ==
    /\ "quality_metrics_read1" \in DOMAIN Fragments[k] =>
          Fragments[k]["quality_metrics_read1"].read_number = 1
    /\ "quality_metrics_read2" \in DOMAIN Fragments[k] =>
          Fragments[k]["quality_metrics_read2"].read_number = 2

\* C28: at every point of the correlation every row of a fragment has the
\* fragment's key as its sample id, and the rows under quality_metrics_read1
\* and quality_metrics_read2 have read number 1 and 2; so a fragment fails
\* the validation only when a required row is missing or when read 2 is
\* present in one of the fastq-list and the quality metrics but not the other.
C28_FragmentRowsMatchTheirKeys ==
    \A k \in DOMAIN Fragments :
        /\ RowsCarryKey(k)
        /\ ReadNumbersFit(k)
        /\ DOMAIN Fragments[k] \subseteq
              {"fastq", "demux_stats", "quality_metrics_read1",
               "quality_metrics_read2"}
        /\ ~CombinedSampleDataValid(Fragments[k]) =>
              \/ ~RequiredPresent(Fragments[k])
              \/ ~NumFastqFilesConsistency(Fragments[k])

\* the final loop has dropped a fragment that holds all required rows and a
\* row of read 2, for a sample whose fastq-list row names no read-2 file
C28_Witness ==
    /\ phase = "done"
    /\ yielded = <<>>
    /\ \E k \in DOMAIN Fragments :
          /\ RequiredPresent(Fragments[k])
          /\ HasRead2(Fragments[k])
          /\ ~NumFastqFilesConsistency(Fragments[k])

\* one call of from_bclconvert that leaves its argument as it was and, when
\* it is not the first call with this record, gives what the call before gave
CallLeavesInput ==
    sf_calls' = sf_calls + 1 =>
        /\ sf_input' = sf_input
        /\ sf_input'["quality_metrics_read1"].read_number = 1
        /\ HasRead2(sf_input') = HasRead2(sf_input)
        /\ sf_calls >= 1 =>
              /\ sf_pc' = sf_pc
              /\ sf_error' = sf_error
              /\ sf_result' = sf_result

CliEnded == cli_pc \in {"done", "crashed"}

\* an exception of a generator never leaves cli(), and a run that ends with
\* the totals has processed every folder of the scan and counted every
\* record the generators yielded
GeneratorErrorsConfined ==
    /\ cli_exc \notin {"KeyError", "RuntimeError", "StopIteration"}
    /\ cli_pc = "done" =>
          /\ folder_idx = Len(cli_folders) + 1
          /\ total_processed_folders = Len(cli_folders)
          /\ total_parsed_samples = Len(AllSamples(cli_folders))
    /\ (cli_pc = "crashed" /\ EverySampleMappable) => cli_exc = "HTTPError"

\* C30: cli() always ends, so the loop over the samples of every folder
\* ends; an exception raised by the generator of a folder ends the samples of
\* that folder only; when every yielded record can be mapped the run reaches
\* its totals with every folder of the scan processed, unless a request of
\* the client fails.
C30_SampleLoopTerminates == <>CliEnded /\ []GeneratorErrorsConfined

\* the generator of the first folder raised, the second folder was still
\* processed with its records counted, and the totals were reached
C30_Witness ==
    /\ cli_pc = "done"
    /\ Len(cli_folders) = 2
    /\ cli_folders[1].exc # "none"
    /\ cli_folders[2].samples # <<>>
    /\ total_processed_folders = 2
    /\ total_parsed_samples = Len(cli_folders[2].samples)

====
